---- MODULE Spec2Model ----
(***************************************************************************)
(* Model of src/src/stackTraceParser.ts: the Java stack trace extractor,   *)
(* the line classifier / parser and the HTML renderer (class               *)
(* StackTraceParser, lines 361-844), the renderer of the subclass          *)
(* BrowserCompatibleStackTraceParser (lines 851-896) and the handler of    *)
(* POST /api/parse (lines 1265-1310).                                      *)
(*                                                                         *)
(* A JavaScript string is a sequence of characters; a character is a       *)
(* one-character TLA+ string.  Regular expressions of the source are       *)
(* transcribed node by node into regex terms and matched by the operators  *)
(* of the section "regular expressions".                                   *)
(***************************************************************************)
EXTENDS Integers, Sequences, FiniteSets, TLC

VARIABLES pc, input, extracted, strategy, parsed, html, lastIndex, history, calls, response

vars == <<pc, input, extracted, strategy, parsed, html, lastIndex, history, calls, response>>

(***************************************************************************)
(* Characters                                                              *)
(***************************************************************************)
BS == "\\"
QUOTE == "\""
NL == "\n"
CR == "\r"
TAB == "\t"

Lower == {"a","b","c","d","e","f","g","h","i","j","k","l","m",
          "n","o","p","q","r","s","t","u","v","w","x","y","z"}
Upper == {"A","B","C","D","E","F","G","H","I","J","K","L","M",
          "N","O","P","Q","R","S","T","U","V","W","X","Y","Z"}
Digit == {"0","1","2","3","4","5","6","7","8","9"}

\* \s of a JavaScript regex and the characters String.prototype.trim removes,
\* over the characters the model's inputs are made of.
WhiteSpace == {" ", TAB, NL, CR}
\* '.' of a JavaScript regex (no s flag) matches everything but these.
LineTerminator == {NL, CR}
\* [a-zA-Z_$]
IdStart == Lower \cup Upper \cup {"_", "$"}
\* [a-zA-Z0-9_$]
IdPart == IdStart \cup Digit
\* [a-zA-Z0-9_$.]
IdPartDot == IdPart \cup {"."}

(***************************************************************************)
(* Sequence helpers (String.prototype.substring, trim, trimStart, join)    *)
(***************************************************************************)
\* const name = v, for the rest F of a function body: v is computed once
With(v, F(_)) == F(v)

Max(S) == CHOOSE x \in S : \A y \in S : y <= x
Min(S) == CHOOSE x \in S : \A y \in S : x <= y

\* s.substring(a - 1, b - 1) with 1-based positions: the characters a..b-1.
Sub(s, a, b) == IF b <= a THEN <<>> ELSE SubSeq(s, a, b - 1)

\* number of leading white space characters: line.length - line.trimStart().length
LeadingWs(s) ==
  IF \A i \in 1..Len(s) : s[i] \in WhiteSpace THEN Len(s)
  ELSE Min({i \in 1..Len(s) : s[i] \notin WhiteSpace}) - 1

TrimStart(s) == Sub(s, LeadingWs(s) + 1, Len(s) + 1)

Trim(s) ==
  IF \A i \in 1..Len(s) : s[i] \in WhiteSpace THEN <<>>
  ELSE Sub(s, Min({i \in 1..Len(s) : s[i] \notin WhiteSpace}),
              Max({i \in 1..Len(s) : s[i] \notin WhiteSpace}) + 1)

RECURSIVE Join(_, _)
\* Array.prototype.join(sep)
Join(ls, sep) ==
  IF Len(ls) = 0 THEN <<>>
  ELSE IF Len(ls) = 1 THEN ls[1]
  ELSE ls[1] \o sep \o Join(Tail(ls), sep)

\* s.includes(w)
Includes(s, w) ==
  \E p \in 1..(Len(s) - Len(w) + 1) : \A i \in 1..Len(w) : s[p + i - 1] = w[i]

(***************************************************************************)
(* Regular expressions.  A position p of s is the boundary before s[p];    *)
(* Len(s) + 1 is the end of s.                                             *)
(***************************************************************************)
In(S) == [k |-> "in", cs |-> S]
NotIn(S) == [k |-> "notin", cs |-> S]
Lit(w) == [k |-> "lit", w |-> w]
Cat(rs) == [k |-> "cat", rs |-> rs]
Alt(rs) == [k |-> "alt", rs |-> rs]
Star(r) == [k |-> "star", r |-> r]
\* ^ and $ (no m flag): the start and the end of the whole string
Bos == [k |-> "bos"]
Eos == [k |-> "eos"]
Plus(r) == Cat(<<r, Star(r)>>)
Opt(r) == Alt(<<r, Cat(<<>>)>>)
Dot == NotIn(LineTerminator)

\* x* for a one-character class x, from the positions P: every position that a
\* run of class characters starting in P reaches.  A position of P that the run
\* of its predecessor covers adds nothing, so only the leaders are expanded.
AfterClassStar(isIn, cs, s, P) ==
  LET bad == {i \in 1..Len(s) : IF isIn THEN s[i] \notin cs ELSE s[i] \in cs}
      leaders == {p \in P : ~((p - 1) \in P /\ (p - 1) \notin bad)}
      stop(p) == LET later == {b \in bad : b >= p}
                 IN IF later = {} THEN Len(s) + 1 ELSE Min(later)
  IN UNION {p..stop(p) : p \in leaders}

RECURSIVE After(_, _, _)
RECURSIVE AfterCat(_, _, _, _)
RECURSIVE AfterStar(_, _, _, _)

\* The positions at which a match of r that starts at a position of P can end.
After(r, s, P) ==
  CASE r.k = "in" ->
         {p + 1 : p \in {q \in P : q <= Len(s) /\ s[q] \in r.cs}}
    [] r.k = "notin" ->
         {p + 1 : p \in {q \in P : q <= Len(s) /\ s[q] \notin r.cs}}
    [] r.k = "lit" ->
         {p + Len(r.w) : p \in {q \in P : /\ q + Len(r.w) - 1 <= Len(s)
                                          /\ \A i \in 1..Len(r.w) : s[q + i - 1] = r.w[i]}}
    [] r.k = "bos" -> P \cap {1}
    [] r.k = "eos" -> P \cap {Len(s) + 1}
    [] r.k = "cat" -> AfterCat(r.rs, 1, s, P)
    [] r.k = "alt" -> UNION {After(r.rs[i], s, P) : i \in 1..Len(r.rs)}
    [] r.k = "star" ->
         IF P = {} THEN {}
         ELSE IF r.r.k = "in" THEN AfterClassStar(TRUE, r.r.cs, s, P)
         ELSE IF r.r.k = "notin" THEN AfterClassStar(FALSE, r.r.cs, s, P)
         ELSE AfterStar(r.r, s, P, P)

AfterCat(rs, i, s, P) ==
  IF i > Len(rs) \/ P = {} THEN P
  ELSE AfterCat(rs, i + 1, s, After(rs[i], s, P))

AfterStar(r, s, frontier, acc) ==
  LET new == After(r, s, frontier) \ acc
  IN IF new = {} THEN acc ELSE AfterStar(r, s, new, acc \cup new)

\* /^r$/.test(s)
FullMatch(r, s) == (Len(s) + 1) \in After(r, s, {1})

\* /r/.test(s), s.match(/r/) # null: r matches somewhere in s
Search(r, s) == After(r, s, 1..(Len(s) + 1)) # {}

RECURSIVE FirstStart(_, _, _, _)
\* The start of the leftmost match of r among the starts lo..hi, one of which
\* starts a match (found by bisection: a match starts in lo..mid or it does not).
FirstStart(r, s, lo, hi) ==
  IF lo = hi THEN lo
  ELSE LET mid == (lo + hi) \div 2
       IN IF After(r, s, lo..mid) # {} THEN FirstStart(r, s, lo, mid)
          ELSE FirstStart(r, s, mid + 1, hi)

\* RegExp.prototype.exec of a g-flagged regex whose lastIndex is from - 1: the
\* start of the leftmost match at or after from, 0 when there is none.
ExecStart(r, s, from) ==
  IF from > Len(s) + 1 \/ After(r, s, from..(Len(s) + 1)) = {} THEN 0
  ELSE FirstStart(r, s, from, Len(s) + 1)

\* The end of that match.  Every g-flagged regex of the source ends in greedy
\* repetitions that the rest of the regex never forces to give characters
\* back, so the match backtracking finds is the longest one from its start.
ExecEnd(r, s, start) == Max(After(r, s, {start}))

\* lastIndex after a match from start to end (an empty match advances by one)
NextFrom(start, end) == IF end = start THEN end + 1 ELSE end

(***************************************************************************)
(* STACK_TRACE_PATTERNS (the static table isStackTraceLine tests)          *)
(***************************************************************************)
KwException == <<"E","x","c","e","p","t","i","o","n">>
KwError == <<"E","r","r","o","r">>
KwExceptionInThread ==
  <<"E","x","c","e","p","t","i","o","n"," ","i","n"," ","t","h","r","e","a","d"," ">>
KwCausedBy == <<"C","a","u","s","e","d"," ","b","y",":">>
KwSuppressed == <<"S","u","p","p","r","e","s","s","e","d",":">>
KwAt == <<"a","t">>
KwDots == <<".",".",".">>
KwMore == <<"m","o","r","e">>

\* [a-zA-Z_$][a-zA-Z0-9_$.]*(?:\.[a-zA-Z_$][a-zA-Z0-9_$]*)*(?:Exception|Error)(?::\s*.+)?
ExceptionText ==
  Cat(<<In(IdStart), Star(In(IdPartDot)),
        Star(Cat(<<Lit(<<".">>), In(IdStart), Star(In(IdPart))>>)),
        Alt(<<Lit(KwException), Lit(KwError)>>),
        Opt(Cat(<<Lit(<<":">>), Star(In(WhiteSpace)), Plus(Dot)>>))>>)

\* /^(\s*)(Exception in thread .+|<ExceptionText>)\s*$/
PatternException ==
  Cat(<<Star(In(WhiteSpace)),
        Alt(<<Cat(<<Lit(KwExceptionInThread), Plus(Dot)>>), ExceptionText>>),
        Star(In(WhiteSpace))>>)

\* /^(\s*)at\s+([a-zA-Z_$][a-zA-Z0-9_$.]*\.[a-zA-Z_$][a-zA-Z0-9_$]*)\(([^)]+)\)\s*$/
PatternAt ==
  Cat(<<Star(In(WhiteSpace)), Lit(KwAt), Plus(In(WhiteSpace)),
        Cat(<<In(IdStart), Star(In(IdPartDot)), Lit(<<".">>), In(IdStart), Star(In(IdPart))>>),
        Lit(<<"(">>), Plus(NotIn({")"})), Lit(<<")">>),
        Star(In(WhiteSpace))>>)

\* /^(\s*)Caused by:\s*(<ExceptionText>)\s*$/
PatternCausedBy ==
  Cat(<<Star(In(WhiteSpace)), Lit(KwCausedBy), Star(In(WhiteSpace)),
        ExceptionText, Star(In(WhiteSpace))>>)

\* /^(\s*)Suppressed:\s*(<ExceptionText>)\s*$/
PatternSuppressed ==
  Cat(<<Star(In(WhiteSpace)), Lit(KwSuppressed), Star(In(WhiteSpace)),
        ExceptionText, Star(In(WhiteSpace))>>)

\* /^(\s*)\.\.\.\s*\d+\s*more\s*$/
PatternMore ==
  Cat(<<Star(In(WhiteSpace)), Lit(KwDots), Star(In(WhiteSpace)), Plus(In(Digit)),
        Star(In(WhiteSpace)), Lit(KwMore), Star(In(WhiteSpace))>>)

STACK_TRACE_PATTERNS ==
  <<PatternException, PatternAt, PatternCausedBy, PatternSuppressed, PatternMore>>

\* isStackTraceLine testing the first four patterns only
isStackTraceLine_NoElision(line) ==
  IF Trim(line) = <<>> THEN FALSE
  ELSE \E i \in 1..4 : FullMatch(STACK_TRACE_PATTERNS[i], line)

\* every pattern of the table carrying the g flag
PatternIsGlobal_All(i) == TRUE

\* the g flag of STACK_TRACE_PATTERNS[i]: none of the five literals has one
PatternIsGlobal(i) == FALSE

\* pattern.test(line) on the static regex object i whose lastIndex is li: the
\* result and the lastIndex it leaves.  Without the g flag the match starts
\* at 0 and lastIndex is neither read nor written; with it the match starts
\* at lastIndex (a pattern that begins with ^ and ends with $ matches from 0
\* only, up to the end of the line), lastIndex becomes the end of the match,
\* or 0 when there is none.
TestPattern(i, line, li) ==
  IF ~PatternIsGlobal(i)
    THEN [hit |-> FullMatch(STACK_TRACE_PATTERNS[i], line), lastIndex |-> li]
  ELSE IF li = 0 /\ FullMatch(STACK_TRACE_PATTERNS[i], line)
    THEN [hit |-> TRUE, lastIndex |-> Len(line)]
  ELSE [hit |-> FALSE, lastIndex |-> 0]

isStackTraceLine(line) ==
  IF Trim(line) = <<>> THEN FALSE
  ELSE \E i \in 1..Len(STACK_TRACE_PATTERNS) : TestPattern(i, line, lastIndex[i]).hit

RECURSIVE SomeFrom(_, _, _)
\* STACK_TRACE_PATTERNS.some(pattern => pattern.test(line)) from pattern i on:
\* the lastIndex values it leaves; some stops at the first hit
SomeFrom(line, li, i) ==
  IF i > Len(STACK_TRACE_PATTERNS) THEN li
  ELSE With(TestPattern(i, line, li[i]), LAMBDA t :
         IF t.hit THEN [li EXCEPT ![i] = t.lastIndex]
         ELSE SomeFrom(line, [li EXCEPT ![i] = t.lastIndex], i + 1))

RECURSIVE LastIndexAfter(_, _, _)
\* the lastIndex values after isStackTraceLine has run on lines k.. in turn
LastIndexAfter(lines, li, k) ==
  IF k > Len(lines) THEN li
  ELSE LastIndexAfter(lines, IF Trim(lines[k]) = <<>> THEN li ELSE SomeFrom(lines[k], li, 1), k + 1)

(***************************************************************************)
(* String.prototype.split(/\r?\n/)                                         *)
(***************************************************************************)
RECURSIVE SplitFrom(_, _)
SplitFrom(s, from) ==
  LET nls == {i \in from..Len(s) : s[i] = NL}
  IN IF nls = {} THEN <<Sub(s, from, Len(s) + 1)>>
     ELSE LET nl == Min(nls)
              stop == IF nl > from /\ s[nl - 1] = CR THEN nl - 1 ELSE nl
          IN <<Sub(s, from, stop)>> \o SplitFrom(s, nl + 1)

SplitLines(s) == SplitFrom(s, 1)

(***************************************************************************)
(* unescapeJsonString                                                      *)
(***************************************************************************)
HexDigit == Digit \cup {"a","b","c","d","e","f","A","B","C","D","E","F"}

HexVal(c) ==
  CASE c \in {"a", "A"} -> 10 [] c \in {"b", "B"} -> 11 [] c \in {"c", "C"} -> 12
    [] c \in {"d", "D"} -> 13 [] c \in {"e", "E"} -> 14 [] c \in {"f", "F"} -> 15
    [] c = "0" -> 0 [] c = "1" -> 1 [] c = "2" -> 2 [] c = "3" -> 3 [] c = "4" -> 4
    [] c = "5" -> 5 [] c = "6" -> 6 [] c = "7" -> 7 [] c = "8" -> 8 [] c = "9" -> 9

RECURSIVE ParseHex(_)
\* parseInt(hex, 16)
ParseHex(w) == IF w = <<>> THEN 0 ELSE 16 * ParseHex(SubSeq(w, 1, Len(w) - 1)) + HexVal(w[Len(w)])

\* the characters of code 32..126 (code 96 cannot be written in a TLA+ string)
Ascii ==
  <<" ","!","\"","#","$","%","&","'","(",")","*","+",",","-",".","/",
    "0","1","2","3","4","5","6","7","8","9",":",";","<","=",">","?",
    "@","A","B","C","D","E","F","G","H","I","J","K","L","M","N","O",
    "P","Q","R","S","T","U","V","W","X","Y","Z","[","\\","]","^","_",
    "U+96","a","b","c","d","e","f","g","h","i","j","k","l","m","n","o",
    "p","q","r","s","t","u","v","w","x","y","z","{","|","}","~">>

\* String.fromCharCode(n); a code outside the table is the character "U+n"
FromCharCode(n) ==
  IF n \in 32..126 THEN Ascii[n - 31]
  ELSE IF n = 9 THEN TAB ELSE IF n = 10 THEN NL ELSE IF n = 13 THEN CR
  ELSE "U+" \o ToString(n)

\* whether the literal w stands at position p of s
LitAt(s, w, p) == p + Len(w) - 1 <= Len(s) /\ \A i \in 1..Len(w) : s[p + i - 1] = w[i]

RECURSIVE ReplaceAllFrom(_, _, _, _)
ReplaceAllFrom(s, w, rep, from) ==
  LET hits == {p \in from..(Len(s) - Len(w) + 1) : LitAt(s, w, p)}
  IN IF hits = {} THEN Sub(s, from, Len(s) + 1)
     ELSE LET p == Min(hits)
          IN Sub(s, from, p) \o rep \o ReplaceAllFrom(s, w, rep, p + Len(w))

\* s.replace(/w/g, rep) for a literal w: the matches left to right, none overlapping
ReplaceAll(s, w, rep) == ReplaceAllFrom(s, w, rep, 1)

RECURSIVE ReplaceCodeFrom(_, _, _, _)
ReplaceCodeFrom(s, intro, n, from) ==
  LET hits == {p \in from..(Len(s) - Len(intro) - n + 1) :
                 /\ LitAt(s, intro, p)
                 /\ \A i \in 0..(n - 1) : s[p + Len(intro) + i] \in HexDigit}
  IN IF hits = {} THEN Sub(s, from, Len(s) + 1)
     ELSE LET p == Min(hits)
              hex == SubSeq(s, p + Len(intro), p + Len(intro) + n - 1)
          IN Sub(s, from, p) \o <<FromCharCode(ParseHex(hex))>>
               \o ReplaceCodeFrom(s, intro, n, p + Len(intro) + n)

\* s.replace(/<intro>([0-9a-fA-F]{n})/g, (match, hex) => String.fromCharCode(parseInt(hex, 16)))
ReplaceCode(s, intro, n) == ReplaceCodeFrom(s, intro, n, 1)

unescapeJsonString(str) ==
  ReplaceCode(
    ReplaceCode(
      ReplaceAll(
        ReplaceAll(
          ReplaceAll(
            ReplaceAll(
              ReplaceAll(str, <<BS, "n">>, <<NL>>),
              <<BS, "r">>, <<CR>>),
            <<BS, "t">>, <<TAB>>),
          <<BS, QUOTE>>, <<QUOTE>>),
        <<BS, BS>>, <<BS>>),
      <<BS, "u">>, 4),
    <<BS, "x">>, 2)

(***************************************************************************)
(* containsStackTracePatterns (the block trace-likeness test)              *)
(***************************************************************************)
\* /(?:Exception|Error)(?::\s*|$)/
ReExceptionWord ==
  Cat(<<Alt(<<Lit(KwException), Lit(KwError)>>),
        Alt(<<Cat(<<Lit(<<":">>), Star(In(WhiteSpace))>>), Eos>>)>>)

\* /^Exception in thread/
ReExceptionInThread == Cat(<<Bos, Lit(SubSeq(KwExceptionInThread, 1, 19))>>)

\* /^\s*at\s+[a-zA-Z_$]/
ReAtStart == Cat(<<Bos, Star(In(WhiteSpace)), Lit(KwAt), Plus(In(WhiteSpace)), In(IdStart)>>)

\* containsStackTracePatterns without its thresholds: any text passes
containsStackTracePatterns_NoThreshold(content) == Len(SplitLines(content)) >= 1

containsStackTracePatterns(content) ==
  With(SplitLines(content), LAMBDA lines :
  With({i \in 1..Len(lines) : isStackTraceLine(lines[i])}, LAMBDA hit :
    LET stackTraceLineCount == Cardinality(hit)
        hasExceptionLine ==
          \E i \in hit : \/ Search(ReExceptionWord, Trim(lines[i]))
                          \/ Search(ReExceptionInThread, Trim(lines[i]))
        hasAtLine == \E i \in hit : Search(ReAtStart, Trim(lines[i]))
    IN \/ stackTraceLineCount >= 2
       \/ (hasExceptionLine /\ hasAtLine)
       \/ stackTraceLineCount >= 3))

(***************************************************************************)
(* Strategies 1-3: extractSerializedStackTrace                             *)
(***************************************************************************)
\* null of a "string | null" result: a value that is no string
Null == <<"null">>

\* if (x) on a "string | null": neither null nor the empty string
Truthy(x) == x # Null /\ x # <<>>

\* [^"\\]*(?:\\.[^"\\]*)* : the body of a quoted string
QuotedBody ==
  Cat(<<Star(NotIn({QUOTE, BS})),
        Star(Cat(<<Lit(<<BS>>), Dot, Star(NotIn({QUOTE, BS}))>>))>>)

\* /"([^"\\]*(\\.[^"\\]*)*)"/g
quotedStringPattern == Cat(<<Lit(<<QUOTE>>), QuotedBody, Lit(<<QUOTE>>)>>)

RECURSIVE QuotedScan(_, _)
\* the while loop of extractFromQuotedStrings, the regex's lastIndex being from - 1
\* QuotedScan returning match[1] as it stands in the input, not unescaped
QuotedScan_ReturnsEscaped(in, from) ==
  With(ExecStart(quotedStringPattern, in, from), LAMBDA start :
    IF start = 0 THEN Null
    ELSE With(ExecEnd(quotedStringPattern, in, start), LAMBDA end :
           IF containsStackTracePatterns(unescapeJsonString(Sub(in, start + 1, end - 1)))
             THEN Sub(in, start + 1, end - 1)
           ELSE QuotedScan(in, NextFrom(start, end))))

QuotedScan(in, from) ==
  With(ExecStart(quotedStringPattern, in, from), LAMBDA start :
    IF start = 0 THEN Null
    ELSE With(ExecEnd(quotedStringPattern, in, start), LAMBDA end :
         With(unescapeJsonString(Sub(in, start + 1, end - 1)), LAMBDA unescapedContent :
           IF containsStackTracePatterns(unescapedContent) THEN unescapedContent
           ELSE QuotedScan(in, NextFrom(start, end)))))

extractFromQuotedStrings(in) == QuotedScan(in, 1)

\* The three incompletePatterns, each as <<what precedes group 1, group 1>>.
\* /"[^"]*":\s*"([^"\\]*(?:\\.[^"\\]*)*)/g
incompleteField ==
  <<Cat(<<Lit(<<QUOTE>>), Star(NotIn({QUOTE})), Lit(<<QUOTE, ":">>),
          Star(In(WhiteSpace)), Lit(<<QUOTE>>)>>),
    QuotedBody>>
\* /:\s*"([^"\\]*(?:\\.[^"\\]*)*)/g
incompleteColon ==
  <<Cat(<<Lit(<<":">>), Star(In(WhiteSpace)), Lit(<<QUOTE>>)>>), QuotedBody>>
\* /"([^"\\]*(?:\\.[^"\\]*)*(?:Exception|Error)[^"\\]*(?:\\.[^"\\]*)*)/g
incompleteAnywhere ==
  <<Lit(<<QUOTE>>),
    Cat(<<QuotedBody, Alt(<<Lit(KwException), Lit(KwError)>>), QuotedBody>>)>>

incompletePatterns == <<incompleteField, incompleteColon, incompleteAnywhere>>

RECURSIVE IncompleteScan(_, _, _)
\* the while loop of extractFromIncompleteJson for one pattern; group 1 starts
\* where the part before it ends (that part has one way to match from a start)
IncompleteScan(in, pattern, from) ==
  LET whole == Cat(<<pattern[1], pattern[2]>>)
  IN With(ExecStart(whole, in, from), LAMBDA start :
       IF start = 0 THEN Null
       ELSE With(ExecEnd(whole, in, start), LAMBDA end :
            With(Max({g \in After(pattern[1], in, {start}) : end \in After(pattern[2], in, {g})}),
                 LAMBDA g1 :
            With(unescapeJsonString(Sub(in, g1, end)), LAMBDA unescapedContent :
              IF containsStackTracePatterns(unescapedContent) THEN unescapedContent
              ELSE IncompleteScan(in, pattern, NextFrom(start, end))))))

RECURSIVE IncompleteLoop(_, _)
\* the for loop of extractFromIncompleteJson over incompletePatterns
IncompleteLoop(in, k) ==
  IF k > Len(incompletePatterns) THEN Null
  ELSE With(IncompleteScan(in, incompletePatterns[k], 1), LAMBDA r :
         IF r # Null THEN r ELSE IncompleteLoop(in, k + 1))

extractFromIncompleteJson(in) == IncompleteLoop(in, 1)

ScanCap == 2000
DefaultLength == 1000

\* ScanStep without the test at the foot of the loop body
ScanStep_NoCap(in, startIndex, i, st) ==
  LET char == in[i + 1]
  IN IF char = BS /\ ~st.inEscape THEN [st EXCEPT !.inEscape = TRUE, !.escapeCount = @ + 1]
     ELSE IF st.inEscape THEN [st EXCEPT !.inEscape = FALSE]
     ELSE IF char = QUOTE /\ st.escapeCount > 0 THEN [st EXCEPT !.end = i, !.done = TRUE]
     ELSE IF char \in {" ", TAB, NL} /\ st.escapeCount >= 2 THEN [st EXCEPT !.end = i, !.done = TRUE]
     ELSE st

\* The forward loop of extractExtendedEscapedSequence over the indices lo..hi
\* (0-based, as in the source), from the loop state st; the range is halved
\* rather than walked so that the evaluation stays shallow on long inputs.
ScanStep(in, startIndex, i, st) ==
  LET char == in[i + 1]
      st1 == IF char = BS /\ ~st.inEscape
               THEN [st EXCEPT !.inEscape = TRUE, !.escapeCount = @ + 1]
             ELSE IF st.inEscape THEN [st EXCEPT !.inEscape = FALSE]
             ELSE IF char = QUOTE /\ st.escapeCount > 0
               THEN [st EXCEPT !.end = i, !.done = TRUE]
             ELSE IF char \in {" ", TAB, NL} /\ st.escapeCount >= 2
               THEN [st EXCEPT !.end = i, !.done = TRUE]
             ELSE st
  IN IF st1.done THEN st1
     ELSE IF i > startIndex + ScanCap THEN [st1 EXCEPT !.done = TRUE]
     ELSE st1

RECURSIVE ScanRange(_, _, _, _, _)
ScanRange(in, startIndex, lo, hi, st) ==
  IF st.done \/ lo > hi THEN st
  ELSE IF lo = hi THEN ScanStep(in, startIndex, lo, [st EXCEPT !.last = lo])
  ELSE LET mid == (lo + hi) \div 2
           left == ScanRange(in, startIndex, lo, mid, st)
       IN IF left.done THEN left ELSE ScanRange(in, startIndex, mid + 1, hi, left)

\* the loop state when the forward loop of extractExtendedEscapedSequence ends;
\* last is the highest index the loop examined
ForwardScan(in, startIndex) ==
  ScanRange(in, startIndex, startIndex, Len(in) - 1,
            [inEscape |-> FALSE, escapeCount |-> 0, end |-> startIndex,
             done |-> FALSE, last |-> startIndex - 1])

extractExtendedEscapedSequence(in, startIndex) ==
  With(ForwardScan(in, startIndex).end, LAMBDA scanned :
    LET start == Max({0} \cup {j \in 1..startIndex : in[j] \in {QUOTE, " ", TAB, NL}})
        end == IF scanned <= startIndex
                 THEN (IF Len(in) < startIndex + DefaultLength THEN Len(in)
                       ELSE startIndex + DefaultLength)
               ELSE scanned
    IN Sub(in, start + 1, end + 1))

NotQuote == NotIn({QUOTE})
\* the two escapedPatterns
\* /([^"]*(?:Exception|Error)[^"]*\\n[^"]*\\t[^"]*at\s+[a-zA-Z_$][^"]*)/g
escapedException ==
  Cat(<<Star(NotQuote), Alt(<<Lit(KwException), Lit(KwError)>>), Star(NotQuote),
        Lit(<<BS, "n">>), Star(NotQuote), Lit(<<BS, "t">>), Star(NotQuote),
        Lit(KwAt), Plus(In(WhiteSpace)), In(IdStart), Star(NotQuote)>>)
\* /([^"]*(?:java\.|com\.|org\.)[^"]*\\n[^"]*\\t[^"]*at\s+[^"]*(?:\\n[^"]*){1,})/g
escapedPackage ==
  Cat(<<Star(NotQuote),
        Alt(<<Lit(<<"j","a","v","a",".">>), Lit(<<"c","o","m",".">>), Lit(<<"o","r","g",".">>)>>),
        Star(NotQuote), Lit(<<BS, "n">>), Star(NotQuote), Lit(<<BS, "t">>), Star(NotQuote),
        Lit(KwAt), Plus(In(WhiteSpace)), Star(NotQuote),
        Plus(Cat(<<Lit(<<BS, "n">>), Star(NotQuote)>>))>>)

escapedPatterns == <<escapedException, escapedPackage>>

RECURSIVE RawScan(_, _, _)
\* the while loop of extractFromRawEscapedText for one pattern
RawScan(in, pattern, from) ==
  With(ExecStart(pattern, in, from), LAMBDA start :
    IF start = 0 THEN Null
    ELSE With(ExecEnd(pattern, in, start), LAMBDA end :
         LET content == Sub(in, start, end)
         IN IF /\ Includes(content, <<BS, "n">>)
               /\ Includes(content, <<BS, "t">>)
               /\ Includes(content, <<"a", "t", " ">>)
              THEN With(unescapeJsonString(extractExtendedEscapedSequence(in, start - 1)),
                        LAMBDA unescapedContent :
                     IF containsStackTracePatterns(unescapedContent) THEN unescapedContent
                     ELSE RawScan(in, pattern, NextFrom(start, end)))
            ELSE RawScan(in, pattern, NextFrom(start, end))))

RECURSIVE RawLoop(_, _)
\* the for loop of extractFromRawEscapedText over escapedPatterns
RawLoop(in, k) ==
  IF k > Len(escapedPatterns) THEN Null
  ELSE With(RawScan(in, escapedPatterns[k], 1), LAMBDA r :
         IF r # Null THEN r ELSE RawLoop(in, k + 1))

extractFromRawEscapedText(in) == RawLoop(in, 1)

\* extractSerializedStackTrace trying the raw-escaped scan first
SerializedResult_RawFirst(in) ==
  With(extractFromRawEscapedText(in), LAMBDA rawEscapedResult :
    IF Truthy(rawEscapedResult) THEN [by |-> 3, text |-> rawEscapedResult]
    ELSE With(extractFromQuotedStrings(in), LAMBDA completeQuotedResult :
      IF Truthy(completeQuotedResult) THEN [by |-> 1, text |-> completeQuotedResult]
      ELSE With(extractFromIncompleteJson(in), LAMBDA incompleteJsonResult :
        IF Truthy(incompleteJsonResult) THEN [by |-> 2, text |-> incompleteJsonResult]
        ELSE [by |-> 0, text |-> Null])))

\* The strategy that answers (1, 2, 3; 0 when none does) and its answer.
SerializedResult(in) ==
  With(extractFromQuotedStrings(in), LAMBDA completeQuotedResult :
    IF Truthy(completeQuotedResult) THEN [by |-> 1, text |-> completeQuotedResult]
    ELSE With(extractFromIncompleteJson(in), LAMBDA incompleteJsonResult :
      IF Truthy(incompleteJsonResult) THEN [by |-> 2, text |-> incompleteJsonResult]
      ELSE With(extractFromRawEscapedText(in), LAMBDA rawEscapedResult :
        IF Truthy(rawEscapedResult) THEN [by |-> 3, text |-> rawEscapedResult]
        ELSE [by |-> 0, text |-> Null])))

extractSerializedStackTrace(in) == SerializedResult(in).text

(***************************************************************************)
(* Strategy 4: the line-by-line fallback of extractStackTrace              *)
(***************************************************************************)
RECURSIVE LineLoop(_, _, _, _)

\* LineLoop without the look-ahead: a line that is not trace-like never ends the run
LineLoop_NoLookAhead(lines, i, inStackTrace, stackTraceLines) ==
  IF i > Len(lines) THEN stackTraceLines
  ELSE IF isStackTraceLine(lines[i]) \/ inStackTrace
    THEN LineLoop(lines, i + 1, TRUE, Append(stackTraceLines, lines[i]))
  ELSE LineLoop(lines, i + 1, inStackTrace, stackTraceLines)

\* LineLoop looking one line ahead in the place of two
LineLoop_LookAheadOne(lines, i, inStackTrace, stackTraceLines) ==
  IF i > Len(lines) THEN stackTraceLines
  ELSE IF isStackTraceLine(lines[i]) \/ (inStackTrace /\ Trim(lines[i]) = <<>>)
    THEN LineLoop(lines, i + 1, TRUE, Append(stackTraceLines, lines[i]))
  ELSE IF inStackTrace
    THEN (IF i + 1 <= Len(lines) /\ isStackTraceLine(lines[i + 1])
            THEN LineLoop(lines, i + 1, TRUE, Append(stackTraceLines, lines[i]))
          ELSE stackTraceLines)
  ELSE LineLoop(lines, i + 1, inStackTrace, stackTraceLines)

\* LineLoop leaving out the blank lines inside a run
LineLoop_SkipsBlank(lines, i, inStackTrace, stackTraceLines) ==
  IF i > Len(lines) THEN stackTraceLines
  ELSE IF isStackTraceLine(lines[i])
    THEN LineLoop(lines, i + 1, TRUE, Append(stackTraceLines, lines[i]))
  ELSE IF inStackTrace /\ Trim(lines[i]) = <<>>
    THEN LineLoop(lines, i + 1, TRUE, stackTraceLines)
  ELSE IF inStackTrace
    THEN (IF \E j \in (i + 1)..(i + 2) : j <= Len(lines) /\ isStackTraceLine(lines[j])
            THEN LineLoop(lines, i + 1, TRUE, Append(stackTraceLines, lines[i]))
          ELSE stackTraceLines)
  ELSE LineLoop(lines, i + 1, inStackTrace, stackTraceLines)

\* the for loop over lines from index i (1-based), with the loop's variables
LineLoop(lines, i, inStackTrace, stackTraceLines) ==
  IF i > Len(lines) THEN stackTraceLines
  ELSE With(isStackTraceLine(lines[i]), LAMBDA isLine :
    LET line == lines[i]
        trimmedLine == Trim(line)
        \* for (j = i + 1; j < Math.min(i + 3, lines.length); j++), 0-based
        foundMoreStackTrace ==
          \E j \in (i + 1)..(i + 2) : j <= Len(lines) /\ isStackTraceLine(lines[j])
    IN IF isLine /\ ~inStackTrace THEN LineLoop(lines, i + 1, TRUE, Append(stackTraceLines, line))
       ELSE IF isLine /\ inStackTrace THEN LineLoop(lines, i + 1, TRUE, Append(stackTraceLines, line))
       ELSE IF inStackTrace /\ trimmedLine = <<>>
         THEN LineLoop(lines, i + 1, TRUE, Append(stackTraceLines, line))
       ELSE IF inStackTrace /\ ~isLine
         THEN (IF ~foundMoreStackTrace THEN stackTraceLines
               ELSE LineLoop(lines, i + 1, TRUE, Append(stackTraceLines, line)))
       ELSE LineLoop(lines, i + 1, inStackTrace, stackTraceLines))

extractLineRun(in) == Join(LineLoop(SplitLines(in), 1, FALSE, <<>>), <<NL>>)

\* extractStackTrace with the strategy that produced the result (4: the fallback)
ExtractResult(in) ==
  With(SerializedResult(in), LAMBDA serializedStackTrace :
    IF Truthy(serializedStackTrace.text) THEN serializedStackTrace
    ELSE [by |-> 4, text |-> extractLineRun(in)])

extractStackTrace(in) == ExtractResult(in).text

(***************************************************************************)
(* parseStackTraceLine and parseStackTrace                                 *)
(***************************************************************************)
\* the exception regex with the thread alternative alone
exceptionMatch_ThreadOnly(line) ==
  FullMatch(Cat(<<Star(In(WhiteSpace)), Lit(KwExceptionInThread), Plus(Dot),
                  Star(In(WhiteSpace))>>), line)

\* The regexes parseStackTraceLine writes out inline (lines 719-783), in the
\* order it tries them.
\* /^(\s*)(Exception in thread .+|<ExceptionText>)\s*$/
exceptionMatch(line) ==
  FullMatch(Cat(<<Star(In(WhiteSpace)),
                  Alt(<<Cat(<<Lit(KwExceptionInThread), Plus(Dot)>>),
                        Cat(<<In(IdStart), Star(In(IdPartDot)),
                              Star(Cat(<<Lit(<<".">>), In(IdStart), Star(In(IdPart))>>)),
                              Alt(<<Lit(KwException), Lit(KwError)>>),
                              Opt(Cat(<<Lit(<<":">>), Star(In(WhiteSpace)), Plus(Dot)>>))>>)>>),
                  Star(In(WhiteSpace))>>), line)

\* /^(\s*)at\s+([a-zA-Z_$][a-zA-Z0-9_$.]*\.[a-zA-Z_$][a-zA-Z0-9_$]*)\(([^)]+)\)\s*$/
\* in four parts: up to group 2, group 2, group 3, what follows group 3
atBefore == Cat(<<Star(In(WhiteSpace)), Lit(KwAt), Plus(In(WhiteSpace))>>)
atFullMethod ==
  Cat(<<In(IdStart), Star(In(IdPartDot)), Lit(<<".">>), In(IdStart), Star(In(IdPart))>>)
atLocation == Plus(NotIn({")"}))
atAfter == Cat(<<Lit(<<")">>), Star(In(WhiteSpace))>>)

\* The ways the at regex matches the whole line: <<start of group 2, end of
\* group 2, end of group 3>>.  Group 2 cannot hold '(' and group 3 cannot hold
\* ')', so there is at most one.
atMatch(line) ==
  UNION {UNION {{<<a, b, d>> : d \in {e \in After(Cat(<<Lit(<<"(">>), atLocation>>), line, {b}) :
                                        (Len(line) + 1) \in After(atAfter, line, {e})}} :
                b \in After(atFullMethod, line, {a})} :
         a \in After(atBefore, line, {1})}

\* a classifier whose caused-by regex matches no line
causedByMatch_Never(line) == FALSE

\* /^(\s*)Caused by:\s*(<ExceptionText>)\s*$/
causedByMatch(line) ==
  FullMatch(Cat(<<Star(In(WhiteSpace)), Lit(KwCausedBy), Star(In(WhiteSpace)),
                  Cat(<<In(IdStart), Star(In(IdPartDot)),
                        Star(Cat(<<Lit(<<".">>), In(IdStart), Star(In(IdPart))>>)),
                        Alt(<<Lit(KwException), Lit(KwError)>>),
                        Opt(Cat(<<Lit(<<":">>), Star(In(WhiteSpace)), Plus(Dot)>>))>>),
                  Star(In(WhiteSpace))>>), line)

\* /^(\s*)Suppressed:\s*(<ExceptionText>)\s*$/
suppressedMatch(line) ==
  FullMatch(Cat(<<Star(In(WhiteSpace)), Lit(KwSuppressed), Star(In(WhiteSpace)),
                  Cat(<<In(IdStart), Star(In(IdPartDot)),
                        Star(Cat(<<Lit(<<".">>), In(IdStart), Star(In(IdPart))>>)),
                        Alt(<<Lit(KwException), Lit(KwError)>>),
                        Opt(Cat(<<Lit(<<":">>), Star(In(WhiteSpace)), Plus(Dot)>>))>>),
                  Star(In(WhiteSpace))>>), line)

\* /^(\s*)\.\.\.\s*\d+\s*more\s*$/
moreMatch(line) ==
  FullMatch(Cat(<<Star(In(WhiteSpace)), Lit(KwDots), Star(In(WhiteSpace)), Plus(In(Digit)),
                  Star(In(WhiteSpace)), Lit(KwMore), Star(In(WhiteSpace))>>), line)

\* fullMethod.indexOf('.') in the place of lastIndexOf
lastDotIndex_First(fullMethod) ==
  IF \A i \in 1..Len(fullMethod) : fullMethod[i] # "." THEN -1
  ELSE Min({i \in 1..Len(fullMethod) : fullMethod[i] = "."}) - 1

\* fullMethod.lastIndexOf('.'), 0-based; -1 when there is no '.'
lastDotIndex(fullMethod) ==
  IF \A i \in 1..Len(fullMethod) : fullMethod[i] # "." THEN -1
  ELSE Max({i \in 1..Len(fullMethod) : fullMethod[i] = "."}) - 1

DigitVal(c) == HexVal(c)

RECURSIVE ParseInt(_)
\* parseInt(w) of a string of decimal digits
ParseInt(w) == IF w = <<>> THEN 0 ELSE 10 * ParseInt(SubSeq(w, 1, Len(w) - 1)) + DigitVal(w[Len(w)])

\* location.match(/^(.+):(\d+)$/): the positions of a ':' that splits location
\* into a non-empty group 1 without line terminators and a non-empty group 2
\* of digits.  Only the last ':' can, so there is at most one.
locationMatch(location) ==
  {c \in 1..Len(location) :
     /\ location[c] = ":"
     /\ c \in After(Plus(Dot), location, {1})
     /\ (Len(location) + 1) \in After(Plus(In(Digit)), location, {c + 1})}

\* the else branch of lines 740-749 taken for every location
LocationFields_NoLineNumber(location) == [fileName |-> location]

\* file name and line number of a location (lines 740-749)
LocationFields(location) ==
  With(locationMatch(location), LAMBDA matches :
    IF matches # {}
      THEN LET c == CHOOSE x \in matches : TRUE
           IN [fileName |-> Sub(location, 1, c),
               lineNumber |-> ParseInt(Sub(location, c + 1, Len(location) + 1))]
    ELSE [fileName |-> location])

parseStackTraceLine(line) ==
  LET indent == Len(line) - Len(TrimStart(line))
  IN IF exceptionMatch(line) THEN [type |-> "exception", content |-> line, indent |-> indent]
     ELSE With(atMatch(line), LAMBDA matches :
       IF matches # {}
         THEN LET m == CHOOSE x \in matches : TRUE
                  fullMethod == Sub(line, m[1], m[2])
                  location == Sub(line, m[2] + 1, m[3])
                  dot == lastDotIndex(fullMethod)
                  className == IF dot > 0 THEN Sub(fullMethod, 1, dot + 1) ELSE <<>>
                  methodName == IF dot > 0 THEN Sub(fullMethod, dot + 2, Len(fullMethod) + 1)
                                ELSE fullMethod
              IN With(LocationFields(location), LAMBDA loc :
                   IF "lineNumber" \in DOMAIN loc
                     THEN [type |-> "at", content |-> line, className |-> className,
                           methodName |-> methodName, fileName |-> loc.fileName,
                           lineNumber |-> loc.lineNumber, indent |-> indent]
                   ELSE [type |-> "at", content |-> line, className |-> className,
                         methodName |-> methodName, fileName |-> loc.fileName,
                         indent |-> indent])
       ELSE IF causedByMatch(line) THEN [type |-> "caused_by", content |-> line, indent |-> indent]
       ELSE IF suppressedMatch(line) THEN [type |-> "suppressed", content |-> line, indent |-> indent]
       ELSE IF moreMatch(line) THEN [type |-> "more", content |-> line, indent |-> indent]
       ELSE [type |-> "unknown", content |-> line, indent |-> indent])

RECURSIVE ParseLines(_, _)
\* ParseLines dropping the lines that match no pattern
ParseLines_DropUnknown(lines, i) ==
  IF i > Len(lines) THEN <<>>
  ELSE IF Trim(lines[i]) = <<>> \/ parseStackTraceLine(lines[i]).type = "unknown"
    THEN ParseLines(lines, i + 1)
  ELSE <<parseStackTraceLine(lines[i])>> \o ParseLines(lines, i + 1)

\* ParseLines giving every entry that is no frame an empty className
ParseLines_ClassEverywhere(lines, i) ==
  IF i > Len(lines) THEN <<>>
  ELSE IF Trim(lines[i]) = <<>> THEN ParseLines(lines, i + 1)
  ELSE <<With(parseStackTraceLine(lines[i]), LAMBDA f :
            IF f.type = "at" THEN f
            ELSE [type |-> f.type, content |-> f.content, indent |-> f.indent,
                  className |-> <<>>])>> \o ParseLines(lines, i + 1)

\* the for loop of parseStackTrace over lines from index i
ParseLines(lines, i) ==
  IF i > Len(lines) THEN <<>>
  ELSE IF Trim(lines[i]) = <<>> THEN ParseLines(lines, i + 1)
  ELSE <<parseStackTraceLine(lines[i])>> \o ParseLines(lines, i + 1)

\* parseStackTrace calling any text with a non-blank line a stack trace
parseStackTrace_AnyLine(stackTraceText) ==
  With(ParseLines(SplitLines(stackTraceText), 1), LAMBDA parsedLines :
    [lines |-> parsedLines,
     hasStackTrace |-> Len(parsedLines) > 0,
     extractedText |-> stackTraceText])

parseStackTrace(stackTraceText) ==
  With(ParseLines(SplitLines(stackTraceText), 1), LAMBDA parsedLines :
    [lines |-> parsedLines,
     hasStackTrace |-> \E i \in 1..Len(parsedLines) : parsedLines[i].type # "unknown",
     extractedText |-> stackTraceText])

(***************************************************************************)
(* formatAsHtml and escapeHtml                                             *)
(***************************************************************************)
\* escapeHtml returning its argument as it is
escapeHtml_Identity(text) == text

escapeHtml(text) ==
  ReplaceAll(
    ReplaceAll(
      ReplaceAll(
        ReplaceAll(
          ReplaceAll(text, <<"&">>, <<"&","a","m","p",";">>),
          <<"<">>, <<"&","l","t",";">>),
        <<">">>, <<"&","g","t",";">>),
      <<QUOTE>>, <<"&","q","u","o","t",";">>),
    <<"'">>, <<"&","#","3","9",";">>)

RECURSIVE Repeat(_, _)
\* w.repeat(n)
Repeat(w, n) == IF n <= 0 THEN <<>> ELSE w \o Repeat(w, n - 1)

RECURSIVE NumberToString(_)
\* String(n) of a non-negative integer
NumberToString(n) ==
  IF n < 10 THEN <<Ascii[n + 17]>> ELSE NumberToString(n \div 10) \o <<Ascii[(n % 10) + 17]>>

\* type as the text of the template literal `stacktrace-${line.type}`
TypeText(type) ==
  CASE type = "exception" -> <<"e","x","c","e","p","t","i","o","n">>
    [] type = "at" -> <<"a","t">>
    [] type = "caused_by" -> <<"c","a","u","s","e","d","_","b","y">>
    [] type = "suppressed" -> <<"s","u","p","p","r","e","s","s","e","d">>
    [] type = "more" -> <<"m","o","r","e">>
    [] type = "unknown" -> <<"u","n","k","n","o","w","n">>

NoStackTraceHtml ==
  <<"<","p"," ","c","l","a","s","s","=","\"","n","o","-","s","t","a","c","k","t","r","a",
      "c","e","\"",">","N","o"," ","s","t","a","c","k"," ","t","r","a","c","e"," ","f","o",
      "u","n","d","<","/","p",">">>
MkDivOpen == <<"<","d","i","v"," ","c","l","a","s","s","=","\"">>
MkDivClassEnd == <<"\"",">">>
MkDivClose == <<"<","/","d","i","v",">">>
MkSpanClose == <<"<","/","s","p","a","n",">">>
MkNbsp == <<"&","n","b","s","p",";">>
MkStacktraceDash == <<"s","t","a","c","k","t","r","a","c","e","-">>
MkExceptionSpan == <<"<","s","p","a","n"," ","c","l","a","s","s","=","\"","e","x","c","e","p","t","i","o",
      "n","-","t","e","x","t","\"",">">>
MkAtKeyword == <<"<","s","p","a","n"," ","c","l","a","s","s","=","\"","a","t","-","k","e","y","w","o",
      "r","d","\"",">","a","t","<","/","s","p","a","n",">"," ","<","s","p","a","n"," ","c",
      "l","a","s","s","=","\"","m","e","t","h","o","d","-","n","a","m","e","\"",">">>
MkLocationOpen == <<"<","/","s","p","a","n",">","(","<","s","p","a","n"," ","c","l","a","s","s","=","\"",
      "l","o","c","a","t","i","o","n","\"",">">>
MkLocationClose == <<"<","/","s","p","a","n",">",")","<","/","d","i","v",">">>
MkCausedBy ==
  <<"<","s","p","a","n"," ","c","l","a","s","s","=","\"","c","a","u","s","e","d","-","b",
      "y","-","k","e","y","w","o","r","d","\"",">","C","a","u","s","e","d"," ","b","y",":",
      "<","/","s","p","a","n",">"," ","<","s","p","a","n"," ","c","l","a","s","s","=","\"",
      "e","x","c","e","p","t","i","o","n","-","t","e","x","t","\"",">">>
MkSuppressed ==
  <<"<","s","p","a","n"," ","c","l","a","s","s","=","\"","s","u","p","p","r","e","s","s",
      "e","d","-","k","e","y","w","o","r","d","\"",">","S","u","p","p","r","e","s","s","e",
      "d",":","<","/","s","p","a","n",">"," ","<","s","p","a","n"," ","c","l","a","s","s",
      "=","\"","e","x","c","e","p","t","i","o","n","-","t","e","x","t","\"",">">>
MkMoreSpan == <<"<","s","p","a","n"," ","c","l","a","s","s","=","\"","m","o","r","e","-","t","e","x",
      "t","\"",">">>
MkContainerOpen == <<"<","d","i","v"," ","c","l","a","s","s","=","\"","s","t","a","c","k","t","r","a","c",
      "e","-","c","o","n","t","a","i","n","e","r","\"",">">>

\* content.replace(/^\s*<keyword>\s*/, '') (no g flag: the first match only)
StripKeyword(content, keyword) ==
  With(After(Cat(<<Star(In(WhiteSpace)), Lit(keyword), Star(In(WhiteSpace))>>), content, {1}),
       LAMBDA ends :
    IF ends = {} THEN content ELSE Sub(content, Max(ends), Len(content) + 1))

\* a field that may be absent: line.f || ''
FieldOrEmpty(line, f) == IF f \in DOMAIN line THEN line[f] ELSE <<>>

\* line.lineNumber ? ':' + line.lineNumber : ''
LineNumberSuffix(line) ==
  IF "lineNumber" \in DOMAIN line /\ line.lineNumber # 0
    THEN <<":">> \o NumberToString(line.lineNumber)
  ELSE <<>>

\* the callback writing every line as the default case does, without the
\* indentation entities
FormatLine_NoIndent(line) ==
  MkDivOpen \o MkStacktraceDash \o TypeText(line.type) \o MkDivClassEnd
    \o escapeHtml(Trim(line.content)) \o MkDivClose

\* the callback of parsedStackTrace.lines.map (lines 808-828)
FormatLine(line) ==
  With(escapeHtml(Trim(line.content)), LAMBDA escapedContent :
  With(MkDivOpen \o MkStacktraceDash \o TypeText(line.type) \o MkDivClassEnd
         \o Repeat(MkNbsp, line.indent), LAMBDA open :
    CASE line.type = "exception" ->
           open \o MkExceptionSpan \o escapedContent \o MkSpanClose \o MkDivClose
      [] line.type = "at" ->
           open \o MkAtKeyword \o escapeHtml(FieldOrEmpty(line, "className")) \o <<".">>
             \o escapeHtml(FieldOrEmpty(line, "methodName")) \o MkLocationOpen
             \o escapeHtml(FieldOrEmpty(line, "fileName")) \o LineNumberSuffix(line)
             \o MkLocationClose
      [] line.type = "caused_by" ->
           open \o MkCausedBy \o escapeHtml(StripKeyword(line.content, KwCausedBy))
             \o MkSpanClose \o MkDivClose
      [] line.type = "suppressed" ->
           open \o MkSuppressed \o escapeHtml(StripKeyword(line.content, KwSuppressed))
             \o MkSpanClose \o MkDivClose
      [] line.type = "more" ->
           open \o MkMoreSpan \o escapedContent \o MkSpanClose \o MkDivClose
      [] OTHER -> open \o escapedContent \o MkDivClose))

\* formatAsHtml deciding by the number of lines
formatAsHtml_ByLines(parsedStackTrace) ==
  IF Len(parsedStackTrace.lines) = 0 THEN NoStackTraceHtml
  ELSE MkContainerOpen
         \o Join([i \in 1..Len(parsedStackTrace.lines) |-> FormatLine(parsedStackTrace.lines[i])],
                 <<NL>>)
         \o MkDivClose

\* formatAsHtml with an empty placeholder
formatAsHtml_EmptyPlaceholder(parsedStackTrace) ==
  IF ~parsedStackTrace.hasStackTrace THEN <<>>
  ELSE MkContainerOpen \o MkDivClose

formatAsHtml(parsedStackTrace) ==
  IF ~parsedStackTrace.hasStackTrace THEN NoStackTraceHtml
  ELSE LET lines == [i \in 1..Len(parsedStackTrace.lines) |-> FormatLine(parsedStackTrace.lines[i])]
       IN MkContainerOpen \o Join(lines, <<NL>>) \o MkDivClose

(***************************************************************************)
(* BrowserCompatibleStackTraceParser: escapeHtml and formatAsHtml          *)
(***************************************************************************)
\* escapeHtml of the subclass leaving the quotes as they are
Browser_escapeHtml_NoQuotes(text) ==
  ReplaceAll(ReplaceAll(ReplaceAll(text, <<"&">>, <<"&","a","m","p",";">>), <<"<">>, <<"&","l","t",";">>), <<">">>, <<"&","g","t",";">>)

\* BrowserCompatibleStackTraceParser.escapeHtml (lines 855-862)
Browser_escapeHtml(text) ==
  ReplaceAll(
    ReplaceAll(
      ReplaceAll(
        ReplaceAll(
          ReplaceAll(text, <<"&">>, <<"&","a","m","p",";">>),
          <<"<">>, <<"&","l","t",";">>),
        <<">">>, <<"&","g","t",";">>),
      <<QUOTE>>, <<"&","q","u","o","t",";">>),
    <<"'">>, <<"&","#","3","9",";">>)

\* the callback of parsedStackTrace.lines.map in the subclass (lines 871-892)
Browser_FormatLine(line) ==
  With(Repeat(<<"&","n","b","s","p",";">>, line.indent), LAMBDA indentSpaces :
  With(Browser_escapeHtml(Trim(line.content)), LAMBDA escapedContent :
  With(<<"s","t","a","c","k","t","r","a","c","e","-">> \o TypeText(line.type), LAMBDA cssClass :
    CASE line.type = "exception" ->
           <<"<","d","i","v"," ","c","l","a","s","s","=","\"">> \o cssClass \o <<"\"",">">> \o indentSpaces
             \o <<"<","s","p","a","n"," ","c","l","a","s","s","=","\"","e","x","c","e","p","t","i","o","n","-","t","e","x","t","\"",">">> \o escapedContent
             \o <<"<","/","s","p","a","n",">","<","/","d","i","v",">">>
      [] line.type = "at" ->
           <<"<","d","i","v"," ","c","l","a","s","s","=","\"">> \o cssClass \o <<"\"",">">> \o indentSpaces
             \o <<"<","s","p","a","n"," ","c","l","a","s","s","=","\"","a","t","-","k","e","y","w","o","r","d","\"",">","a","t","<","/","s","p","a","n",">"," ","<","s","p","a","n"," ","c","l","a","s","s","=","\"","m","e","t","h","o","d","-","n","a","m","e","\"",">">>
             \o Browser_escapeHtml(IF "className" \in DOMAIN line THEN line.className ELSE <<>>)
             \o <<".">>
             \o Browser_escapeHtml(IF "methodName" \in DOMAIN line THEN line.methodName ELSE <<>>)
             \o <<"<","/","s","p","a","n",">","(","<","s","p","a","n"," ","c","l","a","s","s","=","\"","l","o","c","a","t","i","o","n","\"",">">>
             \o Browser_escapeHtml(IF "fileName" \in DOMAIN line THEN line.fileName ELSE <<>>)
             \o (IF "lineNumber" \in DOMAIN line /\ line.lineNumber # 0
                   THEN <<":">> \o NumberToString(line.lineNumber) ELSE <<>>)
             \o <<"<","/","s","p","a","n",">",")","<","/","d","i","v",">">>
      [] line.type = "caused_by" ->
           <<"<","d","i","v"," ","c","l","a","s","s","=","\"">> \o cssClass \o <<"\"",">">> \o indentSpaces
             \o <<"<","s","p","a","n"," ","c","l","a","s","s","=","\"","c","a","u","s","e","d","-","b","y","-","k","e","y","w","o","r","d","\"",">","C","a","u","s","e","d"," ","b","y",":","<","/","s","p","a","n",">"," ">>
             \o <<"<","s","p","a","n"," ","c","l","a","s","s","=","\"","e","x","c","e","p","t","i","o","n","-","t","e","x","t","\"",">">>
             \o Browser_escapeHtml(StripKeyword(line.content, <<"C","a","u","s","e","d"," ","b","y",":">>))
             \o <<"<","/","s","p","a","n",">","<","/","d","i","v",">">>
      [] line.type = "suppressed" ->
           <<"<","d","i","v"," ","c","l","a","s","s","=","\"">> \o cssClass \o <<"\"",">">> \o indentSpaces
             \o <<"<","s","p","a","n"," ","c","l","a","s","s","=","\"","s","u","p","p","r","e","s","s","e","d","-","k","e","y","w","o","r","d","\"",">","S","u","p","p","r","e","s","s","e","d",":","<","/","s","p","a","n",">"," ">>
             \o <<"<","s","p","a","n"," ","c","l","a","s","s","=","\"","e","x","c","e","p","t","i","o","n","-","t","e","x","t","\"",">">>
             \o Browser_escapeHtml(StripKeyword(line.content, <<"S","u","p","p","r","e","s","s","e","d",":">>))
             \o <<"<","/","s","p","a","n",">","<","/","d","i","v",">">>
      [] line.type = "more" ->
           <<"<","d","i","v"," ","c","l","a","s","s","=","\"">> \o cssClass \o <<"\"",">">> \o indentSpaces
             \o <<"<","s","p","a","n"," ","c","l","a","s","s","=","\"","m","o","r","e","-","t","e","x","t","\"",">">> \o escapedContent
             \o <<"<","/","s","p","a","n",">","<","/","d","i","v",">">>
      [] OTHER ->
           <<"<","d","i","v"," ","c","l","a","s","s","=","\"">> \o cssClass \o <<"\"",">">> \o indentSpaces \o escapedContent \o <<"<","/","d","i","v",">">>)))

\* BrowserCompatibleStackTraceParser.formatAsHtml (lines 866-895)
Browser_formatAsHtml(parsedStackTrace) ==
  IF ~parsedStackTrace.hasStackTrace
    THEN <<"<","p"," ","c","l","a","s","s","=","\"","n","o","-","s","t","a","c","k","t","r","a","c","e","\"",">","N","o"," ","s","t","a","c","k"," ","t","r","a","c","e"," ","f","o","u","n","d","<","/","p",">">>
  ELSE <<"<","d","i","v"," ","c","l","a","s","s","=","\"","s","t","a","c","k","t","r","a","c","e","-","c","o","n","t","a","i","n","e","r","\"",">">>
         \o Join([i \in 1..Len(parsedStackTrace.lines) |->
                    Browser_FormatLine(parsedStackTrace.lines[i])], <<NL>>)
         \o <<"<","/","d","i","v",">">>

(***************************************************************************)
(* The inputs of the model                                                 *)
(***************************************************************************)
\* physical lines an input is made of
LineLog == <<"l","o","g">>
LineException == <<"a",".","E","r","r","o","r",":"," ","m">>
LineAt == <<"\t","a","t"," ","a",".","b","(","F",":","1",")">>
LineCausedBy == <<"C","a","u","s","e","d"," ","b","y",":"," ","b",".","E","r","r","o","r">>
LineBlank == <<>>
\* a JSON object whose string value is a trace written with \n and \t escapes
LineJson == <<"{","\"","e","\"",":","\"","c",".","E","r","r","o","r","\\","n","\\","t","a","t"," ",
      "c",".","d","(","G",":","2",")","\"","}">>
\* a quoted string that is no trace
LineQuoted == <<"\"","h","i","\"">>
\* a JSON field whose string value lacks its closing quote
LineUnclosed == <<"e",":"," ","\"","d",".","E","r","r","o","r","\\","n","\\","t","a","t"," ","d",".",
      "e","(","H",":","3",")">>
\* a trace written with \n and \t escapes outside any quotes
LineRaw == <<"e",".","E","r","r","o","r","\\","n","f",".","E","r","r","o","r","\\","n","\\","t",
      "a","t"," ","e",".","f","(","I",":","4",")">>

\* the lines the mixed inputs are made of
Fragments ==
  <<LineLog, LineException, LineAt, LineJson, LineQuoted, LineUnclosed, LineRaw>>

MaxLines == 3

\* the texts of n lines of the sequence frags, joined by line feeds
TextsOfLines(frags, n) ==
  {Join([i \in 1..n |-> frags[f[i]]], <<NL>>) : f \in [1..n -> 1..Len(frags)]}

\* inputs longer than the forward-scan cap: a run of PadLength ordinary
\* characters inside an escaped trace, a quoted string and a literal trace
PadLength == 2100
Pad == [i \in 1..PadLength |-> "x"]
LongInputs ==
  {<<"e",".","E","r","r","o","r","\\","n","f",".","E","r","r","o","r","\\","n">> \o Pad
     \o <<"\\","n","\\","t","a","t"," ","e",".","f","(","I",":","4",")">>,
   <<"e","E","r","r","o","r">> \o Pad
     \o <<"\\","n","\\","t","a","t"," ","e",".","f","(","I",":","4",")">>,
   <<QUOTE>> \o Pad \o <<QUOTE, NL>> \o LineException \o <<NL>> \o LineAt}

\* mixed inputs: the empty string, every text of up to MaxLines lines, the long inputs
Inputs == {<<>>} \cup UNION {TextsOfLines(Fragments, n) : n \in 1..MaxLines} \cup LongInputs

\* log inputs: literal lines, one of them a quoted word that is no trace
LogFragments == <<LineLog, LineException, LineAt, LineBlank, LineQuoted>>
MaxLogLines == 4
LogInputs == UNION {TextsOfLines(LogFragments, n) : n \in 1..MaxLogLines}

(***************************************************************************)
(* JSON documents that hold a trace as a string value                      *)
(***************************************************************************)
RECURSIVE JsonEscape(_)
\* the escaped form of a text inside a JSON string (what JSON.stringify writes)
JsonEscape(t) ==
  IF t = <<>> THEN <<>>
  ELSE (CASE Head(t) = QUOTE -> <<BS, QUOTE>>
          [] Head(t) = BS -> <<BS, BS>>
          [] Head(t) = NL -> <<BS, "n">>
          [] Head(t) = TAB -> <<BS, "t">>
          [] Head(t) = CR -> <<BS, "r">>
          [] OTHER -> <<Head(t)>>) \o JsonEscape(Tail(t))

\* exception messages: plain, with double quotes, and two Windows paths (a
\* backslash before d, a backslash before r); none holds backslash-n or
\* backslash-t itself
Messages ==
  {<<"m">>,
   <<"\"","s","\""," ","i","s"," ","n","u","l","l">>,
   <<"C",":","\\","d","i","r">>,
   <<"C",":","\\","r","o","a","d">>}
HeaderPrefix == <<"a",".","E","r","r","o","r",":"," ">>
FrameA == <<"\t","a","t"," ","a",".","b","(","F",":","1",")">>
FrameB == <<"\t","a","t"," ","c",".","d","(","G",":","2",")">>
MaxFrames == 2
\* a header with a message, followed by 1..MaxFrames indented frames
JsonTraces ==
  {Join(<<HeaderPrefix \o m>> \o [i \in 1..n |-> IF i % 2 = 1 THEN FrameA ELSE FrameB], <<NL>>) :
     m \in Messages, n \in 1..MaxFrames}
\* what stands before and after the escaped trace: a one-line object, a
\* pretty-printed object with a second field, an object with a field before
\* the trace, an object inside a log line
JsonEmbeddings ==
  {<<<<"{","\"","e","\"",":","\"">>, <<"\"","}">>>>,
   <<<<"{","\n"," "," ","\"","e","r","r","o","r","\"",":"," ","\"">>,
     <<"\"",",","\n"," "," ","\"","t","\"",":"," ","\"","v","\"","\n","}">>>>,
   <<<<"{","\"","a","\"",":","\"","b","\"",",","\"","e","\"",":","\"">>, <<"\"","}">>>>,
   <<<<"l","o","g"," ","{","\"","e","\"",":","\"">>, <<"\"","}"," ","e","n","d">>>>}
Embed(e, t) == e[1] \o JsonEscape(t) \o e[2]
JsonInputs == {Embed(e, t) : e \in JsonEmbeddings, t \in JsonTraces}

(***************************************************************************)
(* Frame lines: indentation, "at", a method path, a location in parentheses *)
(***************************************************************************)
Indents == {<<>>, <<" ", " ">>, <<"\t">>}
\* identifiers: a letter, and one with '$', '_', capitals and a digit
Ids == {<<"a">>, <<"$","M","_","1">>}
MaxSegments == 3
RECURSIVE PathsOf(_)
\* the paths of n identifiers joined by '.'
PathsOf(n) == IF n = 1 THEN Ids ELSE {p \o <<".">> \o s : p \in PathsOf(n - 1), s \in Ids}
DottedPaths == UNION {PathsOf(n) : n \in 2..MaxSegments}
\* a method path without a '.', and a constructor's path
OddPaths == {<<"m","a","i","n">>, <<"a",".","<","i","n","i","t",">">>}
\* locations: file and line, opaque tokens, line 0, leading zeros, two colons,
\* an empty prefix, no digits, a letter after the digits, a carriage return
\* in the prefix
Locations ==
  {<<"M","y","C","l","a","s","s",".","j","a","v","a",":","2","5">>,
   <<"N","a","t","i","v","e"," ","M","e","t","h","o","d">>,
   <<"U","n","k","n","o","w","n"," ","S","o","u","r","c","e">>,
   <<"F",":","0">>,
   <<"F",":","0","0","7">>,
   <<"a",":","b",":","3">>,
   <<":","1","2">>,
   <<"F",":">>,
   <<"x",":","1","y">>,
   <<"x","\r","y",":","3">>}
FrameLine(ind, path, loc) == ind \o <<"a","t"," ">> \o path \o <<"(">> \o loc \o <<")">>
FrameInputs ==
  {FrameLine(ind, path, loc) : ind \in Indents, path \in DottedPaths \cup OddPaths, loc \in Locations}

(***************************************************************************)
(* Lines of every kind, and lines that come close to one                   *)
(***************************************************************************)
\* a frame without a line number
LineAtNative == <<"\t","a","t"," ","a",".","b","(","N","a","t","i","v","e"," ","M","e","t","h","o","d",")">>
\* an indented suppressed line
LineSuppressed == <<"\t","S","u","p","p","r","e","s","s","e","d",":"," ","c",".","E","r","r","o","r",":"," ","m">>
\* an elision line
LineMore == <<"\t",".",".","."," ","3"," ","m","o","r","e">>
\* a thread header
LineThread == <<"E","x","c","e","p","t","i","o","n"," ","i","n"," ","t","h","r","e","a","d"," ","\"","m","\""," ","x">>
\* a frame whose method path has no '.'
LineAtNoDot == <<"a","t"," ","m","a","i","n","(","F",":","1",")">>
\* a chain that holds Error but does not end in it
LineErrorInside == <<"a",".","E","r","r","o","r","H","a","n","d","l","e","r">>
\* white space only
LineSpaces == <<" "," ">>
\* a constructor's frame
LineAtInit == <<"a","t"," ","a",".","<","i","n","i","t",">","(","F",":","1",")">>
\* Caused by: without an exception name
LineCausedByWord == <<"C","a","u","s","e","d"," ","b","y",":"," ","o","o","p","s">>
\* an elision line without a count
LineMoreNoCount == <<".",".","."," ","m","o","r","e">>
\* a frame indented by four spaces
LineAtSpaces == <<" "," "," "," ","a","t"," ","c",".","d","(","G",":","2",")">>
KindLines ==
  <<LineException, LineAt, LineAtNative, LineCausedBy, LineSuppressed, LineMore, LineLog,
    LineThread, LineAtNoDot, LineErrorInside, LineSpaces, LineAtInit, LineCausedByWord,
    LineMoreNoCount, LineAtSpaces>>
MaxKindLines == 2
KindInputs == UNION {TextsOfLines(KindLines, n) : n \in 1..MaxKindLines}

(***************************************************************************)
(* Traces with nested causes: two frames, a cause, a suppressed exception  *)
(***************************************************************************)
NestedLines == <<FrameA, FrameB, LineCausedBy, LineSuppressed>>
MaxNestedLines == 5
NestedInputs == UNION {TextsOfLines(NestedLines, n) : n \in 1..MaxNestedLines}

(***************************************************************************)
(* Quoted strings that hold a block of lines                               *)
(***************************************************************************)
\* a frame whose location holds the word Error before the ':'
LineAtErrorLoc == <<"\t","a","t"," ","a",".","b","(","E","r","r","o","r",":","1",")">>
BlockLines == <<LineLog, LineException, FrameA, LineAtErrorLoc, LineMore>>
MaxBlockLines == 3
BlockTexts == UNION {TextsOfLines(BlockLines, n) : n \in 1..MaxBlockLines}
BlockInputs == {<<QUOTE>> \o JsonEscape(t) \o <<QUOTE>> : t \in BlockTexts}

(***************************************************************************)
(* Literal log output around a run of trace lines                          *)
(***************************************************************************)
\* a frame line followed by a carriage return
LineAtCR == LineAt \o <<CR>>
RunLines == <<LineLog, LineAt, LineBlank, LineAtCR>>
MaxRunLines == 5
RunInputs == UNION {TextsOfLines(RunLines, n) : n \in 1..MaxRunLines}

(***************************************************************************)
(* A session: several requests to the same loaded module, one after another *)
(***************************************************************************)
SessionInputs ==
  {LineLog, LineAt, LineJson,
   Join(<<LineException, LineAt>>, <<NL>>),
   Join(<<LineLog, LineException, LineAt, LineLog>>, <<NL>>)}
\* the requests of one session
MaxCalls == 2

(***************************************************************************)
(* Traces with characters that are special in markup                       *)
(***************************************************************************)
\* an exception whose message holds the five special characters
LineExceptionMarkup == <<"a",".","E","r","r","o","r",":"," ","<","b",">","&","\"","'">>
\* a frame whose file name holds special characters
LineAtMarkup == <<"\t","a","t"," ","a",".","b","(","<","g",">","&",":","7",")">>
\* a frame with line number 0
LineAtZero == <<"\t","a","t"," ","a",".","b","(","F",":","0",")">>
\* a cause whose message holds an entity as text
LineCausedByEntity == <<"C","a","u","s","e","d"," ","b","y",":"," ","b",".","E","r","r","o","r",":"," ","&","l","t",";">>
\* a line of markup
LineScript == <<"<","s","c","r","i","p","t",">">>
\* a suppressed exception with single quotes
LineSuppressedQuote == <<"\t","S","u","p","p","r","e","s","s","e","d",":"," ","c",".","E","r","r","o","r",":"," ","'","x","'">>
MarkupLines ==
  <<LineExceptionMarkup, LineAtMarkup, LineAtZero, LineAtNative, LineCausedByEntity, LineScript,
    LineSuppressedQuote>>
MaxMarkupLines == 2
MarkupInputs == UNION {TextsOfLines(MarkupLines, n) : n \in 1..MaxMarkupLines}

\* entries of lines as parseStackTraceLine makes them, and entries a caller
\* of formatAsHtml can make: a frame without its fields, an exception with
\* the fields of a frame, an entry whose indent is not that of its content
RenderEntries ==
  {parseStackTraceLine(KindLines[i]) : i \in 1..Len(KindLines)}
    \cup {parseStackTraceLine(MarkupLines[i]) : i \in 1..Len(MarkupLines)}
    \cup {[type |-> "at", content |-> LineLog, indent |-> 3],
          [type |-> "at", content |-> LineAt, indent |-> 0, methodName |-> <<"<","b",">">>,
           lineNumber |-> 12],
          [type |-> "exception", content |-> LineAtMarkup, indent |-> 2, className |-> <<"a","&","b">>,
           fileName |-> <<"F","'">>],
          [type |-> "caused_by", content |-> LineSuppressedQuote, indent |-> 0],
          [type |-> "more", content |-> LineScript, indent |-> 1]}
MaxRenderLines == 2
\* results with either value of hasStackTrace and any lines
RenderInputs ==
  {[lines |-> ls, hasStackTrace |-> b, extractedText |-> <<>>] :
     ls \in UNION {[1..n -> RenderEntries] : n \in 0..MaxRenderLines}, b \in BOOLEAN}

\* header lines: chains of identifiers that hold, end with or are the words
\* Error and Exception, bare or followed by a colon and a message
HeaderSegments ==
  {<<"a">>, <<"E","r","r","o","r">>, <<"I","O","E","r","r","o","r">>, <<"E","r","r","o","r","H","a","n","d","l","e","r">>, <<"E","x","c","e","p","t","i","o","n">>, <<"M","y","E","x","c","e","p","t","i","o","n">>}
MaxHeaderSegments == 2
RECURSIVE ChainsOf(_)
ChainsOf(n) ==
  IF n = 1 THEN HeaderSegments ELSE {p \o <<".">> \o s : p \in ChainsOf(n - 1), s \in HeaderSegments}
HeaderChains == UNION {ChainsOf(n) : n \in 1..MaxHeaderSegments}
HeaderTails == {<<>>, <<":", " ", "m">>, <<":">>, <<":", " ">>}
HeaderInputs == {ind \o chain \o tail : ind \in Indents, chain \in HeaderChains, tail \in HeaderTails}

\* bodies of a POST to /api/parse: one that is no JSON, JSON values that
\* are no object, objects without a text field or with one that is no
\* string, and objects whose text is a string
Undefined == [t |-> "undefined"]
NonStrings == {[t |-> "null"], [t |-> "number"], [t |-> "boolean"], [t |-> "array"],
               [t |-> "object", text |-> Undefined]}
HandlerTexts == {<<>>} \cup KindInputs \cup SessionInputs
JsonValues ==
  {[t |-> "null"], [t |-> "number"], [t |-> "array"], [t |-> "string", s |-> LineAt]}
    \cup {[t |-> "object", text |-> v] : v \in NonStrings \cup {Undefined}}
    \cup {[t |-> "object", text |-> [t |-> "string", s |-> x]] : x \in HandlerTexts}
Bodies == {[parses |-> FALSE]} \cup {[parses |-> TRUE, json |-> j] : j \in JsonValues}

\* traces written on one physical line with \\n and \\t escapes and no
\* quotes: a header with a message and 1..MaxRawFrames frames, alone or with
\* a log line before or after
RawMessages == {<<"m">>, <<"n","o","t"," ","f","o","u","n","d">>, <<"C",":","\\","d","i","r">>}
MaxRawFrames == 2
RawTraces ==
  {Join(<<HeaderPrefix \o m>> \o [i \in 1..n |-> IF i % 2 = 1 THEN FrameA ELSE FrameB], <<NL>>) :
     m \in RawMessages, n \in 1..MaxRawFrames}
RawEmbeddings ==
  {<< <<>>, <<>> >>, << <<"l","o","g","\n">>, <<>> >>, << <<>>, <<"\n","l","o","g">> >>,
   << <<"l","o","g","\n">>, <<"\n","l","o","g">> >>}
RawInputs == {Embed(e, t) : e \in RawEmbeddings, t \in RawTraces}

\* texts over the five special characters and ordinary ones, and two texts
\* in which a backslash stands before a character code
TextAlphabet == {NL, CR, TAB, QUOTE, BS, "n", "t", "x"}
MaxTextLength == 3
RoundTripTexts ==
  UNION {[1..n -> TextAlphabet] : n \in 0..MaxTextLength}
    \cup {<<BS, "u", "0", "0", "4", "1">>, <<BS, "x", "4", "1">>}

(***************************************************************************)
(* The calls: one request runs extractStackTrace, parseStackTrace and      *)
(* formatAsHtml in sequence (lines 1284-1290); parseStackTrace is also     *)
(* called on a text directly.                                              *)
(***************************************************************************)
NoParse == [lines |-> <<>>, hasStackTrace |-> FALSE, extractedText |-> <<"none">>]
\* no response has been sent
NoResponse == [status |-> 0]
\* the functions of the two classes, as calls records them
CallExtract == "StackTraceParser.extractStackTrace"
CallParse == "StackTraceParser.parseStackTrace"
CallFormat == "StackTraceParser.formatAsHtml"
CallFormatBrowser == "BrowserCompatibleStackTraceParser.formatAsHtml"

InitWith(S) ==
  /\ pc = "start"
  /\ input \in S
  /\ extracted = <<>>
  /\ strategy = 0
  /\ parsed = NoParse
  /\ html = <<>>
  /\ lastIndex = [i \in 1..Len(STACK_TRACE_PATTERNS) |-> 0]
  /\ history = <<>>
  /\ calls = <<>>
  /\ response = NoResponse

Init == InitWith(Inputs)

Extract ==
  /\ pc = "start"
  /\ With(ExtractResult(input), LAMBDA r :
          /\ extracted' = r.text
          /\ strategy' = r.by)
  /\ lastIndex' = LastIndexAfter(SplitLines(input), lastIndex, 1)
  /\ pc' = "extracted"
  /\ calls' = Append(calls, CallExtract)
  /\ UNCHANGED <<input, parsed, html, history, response>>

Parse ==
  /\ pc = "extracted"
  /\ parsed' = parseStackTrace(extracted)
  /\ pc' = "parsed"
  /\ calls' = Append(calls, CallParse)
  /\ UNCHANGED <<input, extracted, strategy, html, lastIndex, history, response>>

ParseText ==
  /\ pc = "start"
  /\ parsed' = parseStackTrace(input)
  /\ pc' = "parsed"
  /\ calls' = Append(calls, CallParse)
  /\ UNCHANGED <<input, extracted, strategy, html, lastIndex, history, response>>

Format ==
  /\ pc = "parsed"
  /\ html' = formatAsHtml(parsed)
  /\ pc' = "rendered"
  /\ calls' = Append(calls, CallFormat)
  /\ UNCHANGED <<input, extracted, strategy, parsed, lastIndex, history, response>>

Next == Extract \/ Parse \/ ParseText \/ Format

Spec == Init /\ [][Next]_vars

\* the same calls on log output
InitLog == InitWith(LogInputs)
SpecLog == InitLog /\ [][Next]_vars

\* the same calls on JSON documents
InitJson == InitWith(JsonInputs)
SpecJson == InitJson /\ [][Next]_vars

\* the same calls on texts of lines of every kind
InitKinds == InitWith(KindInputs)
SpecKinds == InitKinds /\ [][Next]_vars

\* the same calls on traces with nested causes
InitNested == InitWith(NestedInputs)
SpecNested == InitNested /\ [][Next]_vars

\* the same calls on quoted blocks
InitBlock == InitWith(BlockInputs)
SpecBlock == InitBlock /\ [][Next]_vars

\* the same calls on literal log output
InitRun == InitWith(RunInputs)
SpecRun == InitRun /\ [][Next]_vars

\* The next request to the same module: the finished request goes to the
\* history, the locals start afresh, the static regex objects stay as they are.
NewRequest ==
  /\ pc = "rendered"
  /\ Len(history) + 1 < MaxCalls
  /\ history' = Append(history, [input |-> input, extracted |-> extracted, strategy |-> strategy,
                                  parsed |-> parsed, html |-> html])
  /\ input' \in SessionInputs
  /\ pc' = "start"
  /\ extracted' = <<>>
  /\ strategy' = 0
  /\ parsed' = NoParse
  /\ html' = <<>>
  /\ calls' = <<>>
  /\ UNCHANGED <<lastIndex, response>>

NextSession == Next \/ NewRequest
InitSession == InitWith(SessionInputs)
SpecSession == InitSession /\ [][NextSession]_vars

\* the same calls on traces with characters that are special in markup
InitMarkup == InitWith(MarkupInputs)
SpecMarkup == InitMarkup /\ [][Next]_vars

\* formatAsHtml of either class called on a result of any shape
FormatBrowser ==
  /\ pc = "parsed"
  /\ html' = Browser_formatAsHtml(parsed)
  /\ pc' = "rendered"
  /\ calls' = Append(calls, CallFormatBrowser)
  /\ UNCHANGED <<input, extracted, strategy, parsed, lastIndex, history, response>>

NextRender == Format \/ FormatBrowser
InitRender ==
  /\ pc = "parsed"
  /\ input = <<>>
  /\ extracted = <<>>
  /\ strategy = 0
  /\ parsed \in RenderInputs
  /\ html = <<>>
  /\ lastIndex = [i \in 1..Len(STACK_TRACE_PATTERNS) |-> 0]
  /\ history = <<>>
  /\ calls = <<>>
  /\ response = NoResponse
SpecRender == InitRender /\ [][NextRender]_vars

\* the same calls on single header lines
InitHeader == InitWith(HeaderInputs)
SpecHeader == InitHeader /\ [][Next]_vars

\* The fetch handler on a POST to /api/parse (lines 1265-1310).
\* const { text } = value: a TypeError for null, the property for an object,
\* undefined for every other value
DestructuringThrows(json) == json.t = "null"
TextOf(json) == IF json.t = "object" THEN json.text ELSE Undefined
\* typeof text === 'string'
IsString(v) == v.t = "string"
\* the response of the catch block with status 500
FailedResponse_ServerError ==
  [status |-> 500, success |-> FALSE, error |-> "Failed to parse request"]
\* the response of the catch block (lines 1301-1307)
FailedResponse ==
  [status |-> 400, success |-> FALSE, error |-> "Failed to parse request"]
\* the response to a text that is no string (lines 1274-1280)
InvalidInputResponse ==
  [status |-> 400, success |-> FALSE, error |-> "Invalid input"]
\* the response with the three results (lines 1292-1299); the status of a
\* Response made without one is 200
SuccessResponse(extractedStackTrace, parsedStackTrace, formattedHtml) ==
  [status |-> 200, success |-> TRUE, extractedStackTrace |-> extractedStackTrace,
   parsedStackTrace |-> parsedStackTrace, formattedHtml |-> formattedHtml]

fetch ==
  /\ pc = "request"
  /\ IF ~input.parses \/ DestructuringThrows(input.json)
       THEN /\ response' = FailedResponse
            /\ UNCHANGED <<extracted, strategy, parsed, html, lastIndex, calls>>
     ELSE IF ~IsString(TextOf(input.json))
       THEN /\ response' = InvalidInputResponse
            /\ UNCHANGED <<extracted, strategy, parsed, html, lastIndex, calls>>
     ELSE With(TextOf(input.json).s, LAMBDA text :
          With(ExtractResult(text), LAMBDA r :
          With(parseStackTrace(r.text), LAMBDA parsedStackTrace :
          With(Browser_formatAsHtml(parsedStackTrace), LAMBDA formattedHtml :
            /\ extracted' = r.text
            /\ strategy' = r.by
            /\ lastIndex' = LastIndexAfter(SplitLines(text), lastIndex, 1)
            /\ parsed' = parsedStackTrace
            /\ html' = formattedHtml
            /\ calls' = calls \o <<CallExtract, CallParse, CallFormatBrowser>>
            /\ response' = SuccessResponse(r.text, parsedStackTrace, formattedHtml)))))
  /\ pc' = "responded"
  /\ UNCHANGED <<input, history>>

InitHandler ==
  /\ pc = "request"
  /\ input \in Bodies
  /\ extracted = <<>>
  /\ strategy = 0
  /\ parsed = NoParse
  /\ html = <<>>
  /\ lastIndex = [i \in 1..Len(STACK_TRACE_PATTERNS) |-> 0]
  /\ history = <<>>
  /\ calls = <<>>
  /\ response = NoResponse
SpecHandler == InitHandler /\ [][fetch]_vars

\* the same calls on traces escaped outside any quotes
InitRaw == InitWith(RawInputs)
SpecRaw == InitRaw /\ [][Next]_vars

\* unescapeJsonString called on the escaped form of a text
Unescape ==
  /\ pc = "start"
  /\ extracted' = unescapeJsonString(JsonEscape(input))
  /\ pc' = "unescaped"
  /\ UNCHANGED <<input, strategy, parsed, html, lastIndex, history, calls, response>>

InitRoundTrip == InitWith(RoundTripTexts)
SpecRoundTrip == InitRoundTrip /\ [][Unescape]_vars

\* the same calls on single frame lines
InitFrame == InitWith(FrameInputs)
SpecFrame == InitFrame /\ [][Next]_vars

(***************************************************************************)
(* Properties                                                              *)
(***************************************************************************)
\* the calls of one request have run up to and including extractStackTrace
Extracted == strategy # 0

\* C1: for every input (the empty string, text without a trace, inputs longer
\* than the forward-scan cap)
\* formatAsHtml(parseStackTrace(extractStackTrace(x))) is a non-empty string.
C1_RoundTripRenders ==
  pc = "rendered" => (Extracted => Len(html) > 0)

\* a request on an input longer than the cap, answered by the raw-escaped scan,
\* has been rendered
C1_Witness ==
  /\ pc = "rendered"
  /\ Len(input) > ScanCap
  /\ strategy = 3
  /\ parsed.hasStackTrace

\* the indices of the trace-like lines
TraceLikeLines(lines) == {i \in 1..Len(lines) : isStackTraceLine(lines[i])}

\* lines hold one literal multi-line trace between unrelated lines: the
\* trace-like lines are two or more and contiguous, and the line that follows
\* them, if any, is a log line (not blank)
EmbeddedTrace(lines) ==
  With(TraceLikeLines(lines), LAMBDA T :
    /\ Cardinality(T) >= 2
    /\ T = Min(T)..Max(T)
    /\ Max(T) < Len(lines) => Trim(lines[Max(T) + 1]) # <<>>)

\* the lines from the first trace-like line to the last one
TraceLines(lines) ==
  With(TraceLikeLines(lines), LAMBDA T : SubSeq(lines, Min(T), Max(T)))

C3_JsonTraceUnescaped ==
  Extracted =>
    \A e \in JsonEmbeddings, t \in JsonTraces :
      input = Embed(e, t) =>
        /\ extracted = t
        /\ ~Includes(extracted, <<BS, "n">>)
        /\ ~Includes(extracted, <<BS, "t">>)

\* a JSON-embedded trace whose message holds escaped double quotes has been
\* extracted by the quoted-string scan and equals the trace
C3_Witness ==
  /\ Extracted /\ strategy = 1
  /\ \E e \in JsonEmbeddings, t \in JsonTraces :
       input = Embed(e, t) /\ extracted = t /\ Includes(t, <<QUOTE>>)

(***************************************************************************)
(* The candidates of strategies 1-3: every text a scan unescapes and tests *)
(* when no earlier one passes                                              *)
(***************************************************************************)
RECURSIVE QuotedCandidatesFrom(_, _)
QuotedCandidatesFrom(in, from) ==
  With(ExecStart(quotedStringPattern, in, from), LAMBDA start :
    IF start = 0 THEN {}
    ELSE With(ExecEnd(quotedStringPattern, in, start), LAMBDA end :
           {unescapeJsonString(Sub(in, start + 1, end - 1))}
             \cup QuotedCandidatesFrom(in, NextFrom(start, end))))
QuotedCandidates(in) == QuotedCandidatesFrom(in, 1)

RECURSIVE IncompleteCandidatesFrom(_, _, _)
IncompleteCandidatesFrom(in, pattern, from) ==
  LET whole == Cat(<<pattern[1], pattern[2]>>)
  IN With(ExecStart(whole, in, from), LAMBDA start :
       IF start = 0 THEN {}
       ELSE With(ExecEnd(whole, in, start), LAMBDA end :
            With(Max({g \in After(pattern[1], in, {start}) : end \in After(pattern[2], in, {g})}),
                 LAMBDA g1 :
              {unescapeJsonString(Sub(in, g1, end))}
                \cup IncompleteCandidatesFrom(in, pattern, NextFrom(start, end)))))
IncompleteCandidates(in) ==
  UNION {IncompleteCandidatesFrom(in, incompletePatterns[k], 1) : k \in 1..Len(incompletePatterns)}

RECURSIVE RawCandidatesFrom(_, _, _)
RawCandidatesFrom(in, pattern, from) ==
  With(ExecStart(pattern, in, from), LAMBDA start :
    IF start = 0 THEN {}
    ELSE With(ExecEnd(pattern, in, start), LAMBDA end :
         LET content == Sub(in, start, end)
         IN (IF /\ Includes(content, <<BS, "n">>)
                /\ Includes(content, <<BS, "t">>)
                /\ Includes(content, <<"a", "t", " ">>)
               THEN {unescapeJsonString(extractExtendedEscapedSequence(in, start - 1))}
             ELSE {})
              \cup RawCandidatesFrom(in, pattern, NextFrom(start, end))))
RawCandidates(in) ==
  UNION {RawCandidatesFrom(in, escapedPatterns[k], 1) : k \in 1..Len(escapedPatterns)}

\* no line of text matches one of the five structural patterns
NoStructuralLine(text) ==
  With(SplitLines(text), LAMBDA lines : \A i \in 1..Len(lines) : ~isStackTraceLine(lines[i]))

\* the empty text parses to an invalid result without lines
EmptyParsesInvalid ==
  (pc = "parsed" /\ Extracted /\ extracted = <<>>)
    => (~parsed.hasStackTrace /\ parsed.lines = <<>>)

\* C4 as stated: when no physical line and no line of any unescaped quoted
\* candidate (of the quoted-string scan or the incomplete-JSON scan) matches a
\* structural pattern, extractStackTrace returns the empty string, and the
\* empty string parses to hasStackTrace = false with no lines.
C4_NoPatternNoResult ==
  /\ (/\ Extracted
      /\ NoStructuralLine(input)
      /\ \A c \in QuotedCandidates(input) \cup IncompleteCandidates(input) : NoStructuralLine(c))
       => extracted = <<>>
  /\ EmptyParsesInvalid

\* C4, amended: when no physical line and no line of any unescaped candidate
\* of strategies 1-3 (quoted string, incomplete-JSON capture, raw-escaped
\* span outside quotes) matches a structural pattern, extractStackTrace
\* returns the empty string, and the empty string parses to hasStackTrace =
\* false with no lines.
C4_NoPatternNoResultAmended ==
  /\ (/\ Extracted
      /\ NoStructuralLine(input)
      /\ \A c \in QuotedCandidates(input) \cup IncompleteCandidates(input)
                  \cup RawCandidates(input) : NoStructuralLine(c))
       => extracted = <<>>
  /\ EmptyParsesInvalid

\* an input with a quoted candidate and no structural line anywhere has been
\* extracted to the empty string and parsed
C4_Witness ==
  /\ pc = "parsed" /\ Extracted
  /\ NoStructuralLine(input)
  /\ QuotedCandidates(input) # {}
  /\ \A c \in QuotedCandidates(input) \cup IncompleteCandidates(input)
              \cup RawCandidates(input) : NoStructuralLine(c)
  /\ extracted = <<>> /\ ~parsed.hasStackTrace /\ parsed.lines = <<>>

\* C5: extractStackTrace returns the result of the first of the quoted-string
\* scan, the incomplete-JSON scan, the raw-escaped scan and the line-run
\* fallback that produces a candidate; a later strategy answers only when
\* every earlier one produced nothing.
C5_FirstStrategyWins ==
  Extracted =>
    With(extractFromQuotedStrings(input), LAMBDA quoted :
    With(extractFromIncompleteJson(input), LAMBDA incomplete :
    With(extractFromRawEscapedText(input), LAMBDA raw :
      /\ Truthy(quoted) => (strategy = 1 /\ extracted = quoted)
      /\ (~Truthy(quoted) /\ Truthy(incomplete)) => (strategy = 2 /\ extracted = incomplete)
      /\ (~Truthy(quoted) /\ ~Truthy(incomplete) /\ Truthy(raw))
           => (strategy = 3 /\ extracted = raw)
      /\ (~Truthy(quoted) /\ ~Truthy(incomplete) /\ ~Truthy(raw))
           => (strategy = 4 /\ extracted = extractLineRun(input)))))

\* the quoted-string scan has answered although the raw-escaped scan has a
\* candidate too, one that starts before the first quoted string of the input
C5_Witness ==
  /\ Extracted /\ strategy = 1
  /\ Truthy(extractFromRawEscapedText(input))
  /\ extracted # extractFromRawEscapedText(input)
  /\ ExecStart(escapedException, input, 1) < ExecStart(quotedStringPattern, input, 1)

RECURSIVE QuotedMatchesFrom(_, _)
\* the matches of quotedStringPattern in scan order, each as <<position of the
\* opening quote, position after the closing quote>>
QuotedMatchesFrom(in, from) ==
  With(ExecStart(quotedStringPattern, in, from), LAMBDA start :
    IF start = 0 THEN <<>>
    ELSE With(ExecEnd(quotedStringPattern, in, start), LAMBDA end :
           <<(<<start, end>>)>> \o QuotedMatchesFrom(in, NextFrom(start, end))))
QuotedMatches(in) == QuotedMatchesFrom(in, 1)
\* what stands between the delimiters of the match m
QuotedContent(in, m) == Sub(in, m[1] + 1, m[2] - 1)

\* C6: when the quoted-string scan succeeds, the result is the unescaped
\* content of one double-quoted string of the input, the first in order of
\* appearance whose unescaped content passes the block test; it is computed
\* from what stands between that string's delimiters alone.
C6_FirstPassingQuotedString ==
  (Extracted /\ strategy = 1) =>
    With(QuotedMatches(input), LAMBDA M :
      \E k \in 1..Len(M) :
        /\ input[M[k][1]] = QUOTE /\ input[M[k][2] - 1] = QUOTE
        /\ M[k][2] - M[k][1] >= 2
        /\ FullMatch(QuotedBody, QuotedContent(input, M[k]))
        /\ extracted = unescapeJsonString(QuotedContent(input, M[k]))
        /\ containsStackTracePatterns(extracted)
        /\ \A j \in 1..(k - 1) :
             ~containsStackTracePatterns(unescapeJsonString(QuotedContent(input, M[j]))))

\* the scan has passed over an earlier quoted string and answered with a later
\* one, with text of the input left outside that string
C6_Witness ==
  /\ Extracted /\ strategy = 1
  /\ With(QuotedMatches(input), LAMBDA M :
       \E k \in 2..Len(M) :
         /\ extracted = unescapeJsonString(QuotedContent(input, M[k]))
         /\ M[k][2] <= Len(input)
         /\ \A j \in 1..(k - 1) :
              ~containsStackTracePatterns(unescapeJsonString(QuotedContent(input, M[j]))))

\* the text parseStackTrace was called with
ParsedText == IF Extracted THEN extracted ELSE input
\* the non-blank lines of a text
NonBlankLines(text) == SelectSeq(SplitLines(text), LAMBDA l : Trim(l) # <<>>)
LineTypes == {"exception", "at", "caused_by", "suppressed", "more", "unknown"}

\* C7: parseStackTrace(text).lines has one entry per non-blank line of text,
\* in the original order; each entry's content is the line with its white
\* space, and a line that matches no pattern is an entry of type unknown.
C7_OneEntryPerNonBlankLine ==
  pc \in {"parsed", "rendered"} =>
    With(NonBlankLines(ParsedText), LAMBDA nb :
      /\ parsed.extractedText = ParsedText
      /\ Len(parsed.lines) = Len(nb)
      /\ \A i \in 1..Len(nb) :
           /\ parsed.lines[i].content = nb[i]
           /\ parsed.lines[i].type \in LineTypes
           /\ ~isStackTraceLine(nb[i]) => parsed.lines[i].type = "unknown")

\* a text with a blank line, an indented line and a line that matches no
\* pattern has been parsed
C7_Witness ==
  /\ pc = "parsed" /\ ~Extracted
  /\ Len(SplitLines(input)) > Len(parsed.lines)
  /\ \E i \in 1..Len(parsed.lines) : parsed.lines[i].type = "unknown"
  /\ \E i \in 1..Len(parsed.lines) :
       parsed.lines[i].indent > 0 /\ parsed.lines[i].content[1] = TAB

\* C8: hasStackTrace is true exactly when some entry of lines has a type
\* other than unknown; a text without a recognizable line yields
\* hasStackTrace = false and entries that are all unknown.
C8_ValidIffRecognizedLine ==
  pc \in {"parsed", "rendered"} =>
    /\ parsed.hasStackTrace <=> \E i \in 1..Len(parsed.lines) : parsed.lines[i].type # "unknown"
    /\ NoStructuralLine(ParsedText) =>
         /\ ~parsed.hasStackTrace
         /\ \A i \in 1..Len(parsed.lines) : parsed.lines[i].type = "unknown"

\* a text with lines, none of them recognizable, has been parsed
C8_Witness ==
  /\ pc = "parsed"
  /\ Len(parsed.lines) >= 2
  /\ \A i \in 1..Len(parsed.lines) : parsed.lines[i].type = "unknown"
  /\ ~parsed.hasStackTrace

\* a word of letters, digits, '_' and '$' that does not begin with a digit
IsIdentifier(w) == w # <<>> /\ w[1] \in IdStart /\ \A i \in 2..Len(w) : w[i] \in IdPart
DotPositions(p) == {i \in 1..Len(p) : p[i] = "."}
\* identifiers joined by '.', two or more
IsDottedPath(p) ==
  /\ DotPositions(p) # {}
  /\ \A i \in {0} \cup DotPositions(p) :
       IsIdentifier(SubSeq(p, i + 1, Min({k \in DotPositions(p) \cup {Len(p) + 1} : k > i}) - 1))
LastDot(p) == Max(DotPositions(p))
FirstOpen(b) == Min({i \in 1..Len(b) : b[i] = "("})
\* what stands between "at " and the first '(' of a line
PathOf(line) == With(Trim(line), LAMBDA b : SubSeq(b, 4, FirstOpen(b) - 1))
\* what stands between the first '(' and the closing ')' of a line
LocationOf(line) == With(Trim(line), LAMBDA b : SubSeq(b, FirstOpen(b) + 1, Len(b) - 1))
\* a line of the form at <dotted.path>(<location>) after optional white space
IsFrameForm(line) ==
  With(Trim(line), LAMBDA b :
    /\ Len(b) >= 4 /\ SubSeq(b, 1, 3) = <<"a","t"," ">>
    /\ b[Len(b)] = ")"
    /\ \E i \in 1..Len(b) : b[i] = "("
    /\ IsDottedPath(PathOf(line))
    /\ LocationOf(line) # <<>>
    /\ \A i \in 1..Len(LocationOf(line)) : LocationOf(line)[i] # ")")

\* C9: a line at <dotted.path>(<location>), with optional leading white
\* space, is classified as a frame whose methodName is the segment of the
\* path after its last '.' and whose className is everything before that
\* '.', so that className, '.', methodName together are the path.
C9_FrameClassAndMethod ==
  (pc \in {"parsed", "rendered"} /\ IsFrameForm(ParsedText)) =>
    /\ Len(parsed.lines) = 1
    /\ parsed.lines[1].type = "at"
    /\ With(PathOf(ParsedText), LAMBDA path :
         /\ parsed.lines[1].methodName = SubSeq(path, LastDot(path) + 1, Len(path))
         /\ parsed.lines[1].className = SubSeq(path, 1, LastDot(path) - 1)
         /\ parsed.lines[1].className \o <<".">> \o parsed.lines[1].methodName = path)

\* an indented frame line whose path has three segments has been classified:
\* the class name itself holds a '.'
C9_Witness ==
  /\ pc = "parsed" /\ IsFrameForm(ParsedText)
  /\ parsed.lines[1].type = "at"
  /\ parsed.lines[1].indent > 0
  /\ Cardinality(DotPositions(PathOf(ParsedText))) >= 2
  /\ DotPositions(parsed.lines[1].className) # {}
  /\ DotPositions(parsed.lines[1].methodName) = {}

\* the parsed text is one line and it has been classified as a frame
FrameEntry == pc \in {"parsed", "rendered"} /\ Len(parsed.lines) = 1 /\ parsed.lines[1].type = "at"
\* the positions of a ':' that is followed by digits to the end, one or more
LineSuffixColons(loc) ==
  {c \in 1..(Len(loc) - 1) : loc[c] = ":" /\ \A i \in (c + 1)..Len(loc) : loc[i] \in Digit}
\* the same, with a prefix that is not empty and holds no line terminator
LineSuffixColonsAfterPrefix(loc) ==
  {c \in LineSuffixColons(loc) : c > 1 /\ \A i \in 1..(c - 1) : loc[i] \notin LineTerminator}
\* lineNumber and fileName are the two sides of the ':' at c
SplitAt(f, loc, c) ==
  /\ "lineNumber" \in DOMAIN f
  /\ f.lineNumber = ParseInt(SubSeq(loc, c + 1, Len(loc)))
  /\ f.fileName = SubSeq(loc, 1, c - 1)
\* fileName is the whole location and there is no lineNumber
Whole(f, loc) == f.fileName = loc /\ "lineNumber" \notin DOMAIN f

\* C10: for every frame line, a location of the form <anything>:<digits>
\* gives lineNumber the digits parsed as an integer and fileName the prefix
\* before the final ':'; any other location gives fileName the whole
\* location and no lineNumber.
C10_LocationSplit ==
  FrameEntry =>
    With(LocationOf(ParsedText), LAMBDA loc :
      IF LineSuffixColons(loc) # {}
        THEN \A c \in LineSuffixColons(loc) : SplitAt(parsed.lines[1], loc, c)
      ELSE Whole(parsed.lines[1], loc))

\* C10 amended: a location of the form <prefix>:<digits> whose prefix is not
\* empty and holds no line terminator gives lineNumber the digits parsed as
\* an integer and fileName the prefix before the final ':'; any other
\* location gives fileName the whole location and no lineNumber.
C10_LocationSplitAmended ==
  FrameEntry =>
    With(LocationOf(ParsedText), LAMBDA loc :
      IF LineSuffixColonsAfterPrefix(loc) # {}
        THEN \A c \in LineSuffixColonsAfterPrefix(loc) : SplitAt(parsed.lines[1], loc, c)
      ELSE Whole(parsed.lines[1], loc))

\* a frame line whose location holds two colons has been classified: the
\* final one separates the line number, the other stays in the file name
C10_Witness ==
  /\ FrameEntry
  /\ LineSuffixColonsAfterPrefix(LocationOf(ParsedText)) # {}
  /\ "lineNumber" \in DOMAIN parsed.lines[1]
  /\ \E i \in 1..Len(parsed.lines[1].fileName) : parsed.lines[1].fileName[i] = ":"


FrameFields == {"className", "methodName", "fileName", "lineNumber"}

\* C11: in every entry of parseStackTrace's lines the fields className,
\* methodName, fileName and lineNumber are present only when type is at; an
\* entry of any other type has none of the four, and an entry of type at
\* always has className, methodName and fileName.
C11_FrameFieldsOnlyOnFrames ==
  pc \in {"parsed", "rendered"} =>
    \A i \in 1..Len(parsed.lines) :
      /\ parsed.lines[i].type \in LineTypes
      /\ IF parsed.lines[i].type = "at"
           THEN {"className", "methodName", "fileName"} \subseteq DOMAIN parsed.lines[i]
         ELSE DOMAIN parsed.lines[i] \cap FrameFields = {}

\* a text with a frame that has no line number and a suppressed line has
\* been parsed
C11_Witness ==
  /\ pc = "parsed"
  /\ \E i \in 1..Len(parsed.lines) :
       parsed.lines[i].type = "at" /\ "lineNumber" \notin DOMAIN parsed.lines[i]
  /\ \E i \in 1..Len(parsed.lines) : parsed.lines[i].type = "suppressed"


Range(f) == {f[i] : i \in DOMAIN f}
StartsWith(s, prefix) == Len(s) >= Len(prefix) /\ SubSeq(s, 1, Len(prefix)) = prefix
\* the type a line of a nested trace has by the keyword it begins with
KeywordKind(line) ==
  With(Trim(line), LAMBDA b :
    IF StartsWith(b, <<"C","a","u","s","e","d"," ","b","y",":"," ">>) THEN "caused_by"
    ELSE IF StartsWith(b, <<"S","u","p","p","r","e","s","s","e","d",":"," ">>) THEN "suppressed"
    ELSE IF StartsWith(b, <<"a","t"," ">>) THEN "at"
    ELSE "other")
KindsOf(lines) == [i \in 1..Len(lines) |-> KeywordKind(lines[i])]

\* C12: for a trace text with a Caused by: line and an indented Suppressed:
\* line among frame lines, parseStackTrace's lines hold an entry of type
\* caused_by and one of type suppressed at the positions of those lines, and
\* the frame entries around them in their original order.
C12_NestedKeptInOrder ==
  pc \in {"parsed", "rendered"} =>
    With(SplitLines(ParsedText), LAMBDA lines :
      ("caused_by" \in Range(KindsOf(lines)) /\ "suppressed" \in Range(KindsOf(lines))
         /\ "other" \notin Range(KindsOf(lines)))
        => /\ Len(parsed.lines) = Len(lines)
           /\ \A i \in 1..Len(lines) :
                /\ parsed.lines[i].type = KeywordKind(lines[i])
                /\ parsed.lines[i].content = lines[i])

\* a trace with a frame, a cause, another frame, a suppressed exception and
\* a third frame has been parsed
C12_Witness ==
  /\ pc = "parsed"
  /\ Len(parsed.lines) = 5
  /\ [i \in 1..5 |-> parsed.lines[i].type] = <<"at", "caused_by", "at", "suppressed", "at">>
  /\ parsed.lines[1].content # parsed.lines[3].content
  /\ parsed.lines[4].indent > 0


\* C13: a line is trace-like (isStackTraceLine) exactly when it is not blank
\* and parseStackTraceLine gives it a type other than unknown; this holds
\* for every physical line of the input and for every parsed entry.
C13_ExtractorAndClassifierAgree ==
  /\ \A l \in Range(SplitLines(input)) :
       isStackTraceLine(l) <=> (Trim(l) # <<>> /\ parseStackTraceLine(l).type # "unknown")
  /\ pc \in {"parsed", "rendered"} =>
       \A i \in 1..Len(parsed.lines) :
         isStackTraceLine(parsed.lines[i].content) <=> parsed.lines[i].type # "unknown"

\* a text with an elision line and a line that begins with "at " but is no
\* frame has been parsed: the first is trace-like, the second is not
C13_Witness ==
  /\ pc = "parsed"
  /\ \E i \in 1..Len(parsed.lines) :
       parsed.lines[i].type = "more" /\ isStackTraceLine(parsed.lines[i].content)
  /\ \E i \in 1..Len(parsed.lines) :
       /\ parsed.lines[i].type = "unknown"
       /\ StartsWith(parsed.lines[i].content, <<"a","t"," ">>)
       /\ ~isStackTraceLine(parsed.lines[i].content)


\* the block test as stated: two trace-like lines or more, or an exception
\* header line and another line that is a frame, or three trace-like lines
BlockTraceLike(text) ==
  With(SplitLines(text), LAMBDA lines :
    \/ Cardinality(TraceLikeLines(lines)) >= 2
    \/ \E i, j \in 1..Len(lines) :
         i # j /\ FullMatch(PatternException, lines[i]) /\ FullMatch(PatternAt, lines[j])
    \/ Cardinality(TraceLikeLines(lines)) >= 3)

\* C14: containsStackTracePatterns accepts a candidate exactly when it has
\* two or more trace-like lines, or an exception header line and another
\* line that is a frame, or three or more trace-like lines; a candidate with
\* fewer than two trace-like lines is rejected, so the quoted-string scan
\* answers exactly when some quoted candidate is such a block.
C14_BlockTest ==
  /\ \A c \in QuotedCandidates(input) : containsStackTracePatterns(c) <=> BlockTraceLike(c)
  /\ Extracted => (strategy = 1 <=> \E c \in QuotedCandidates(input) : BlockTraceLike(c))

\* the scan has answered with a block of a header and a frame
C14_Witness ==
  /\ Extracted /\ strategy = 1
  /\ BlockTraceLike(extracted)
  /\ Len(SplitLines(extracted)) = 2
  /\ FullMatch(PatternException, SplitLines(extracted)[1])
  /\ FullMatch(PatternAt, SplitLines(extracted)[2])


\* the first trace-like line
RunStart(lines) == Min(TraceLikeLines(lines))
\* line i is not blank, not trace-like, and neither of the next two lines is
\* trace-like
EndsRun(lines, i) ==
  /\ Trim(lines[i]) # <<>>
  /\ ~isStackTraceLine(lines[i])
  /\ \A j \in {i + 1, i + 2} \cap (1..Len(lines)) : ~isStackTraceLine(lines[j])
\* the last line of the run: the one before the first line after the start
\* that ends the run, or the last line of the input
RunEnd(lines) ==
  With({i \in (RunStart(lines) + 1)..Len(lines) : EndsRun(lines, i)}, LAMBDA E :
    IF E = {} THEN Len(lines) ELSE Min(E) - 1)

\* C15: in the fallback, once a run has started, a non-blank line that is
\* not trace-like ends the run, itself and all that follows excluded, unless
\* one of the next two physical lines is trace-like, in which case the line
\* is kept and the scan goes on; otherwise the run ends at the end of input.
C15_RunEndsAtUntoleratedLine ==
  With(SplitLines(input), LAMBDA lines :
    (Extracted /\ strategy = 4 /\ TraceLikeLines(lines) # {})
      => extracted = Join(SubSeq(lines, RunStart(lines), RunEnd(lines)), <<NL>>))

\* a run has ended at a line after which a trace-like line comes too late:
\* that later line is not in the result
C15_Witness ==
  With(SplitLines(input), LAMBDA lines :
    /\ Extracted /\ strategy = 4 /\ TraceLikeLines(lines) # {}
    /\ RunEnd(lines) < Len(lines)
    /\ Max(TraceLikeLines(lines)) > RunEnd(lines) + 1
    /\ extracted = Join(SubSeq(lines, RunStart(lines), RunEnd(lines)), <<NL>>))

\* C16: when strategies 1-3 produce nothing, the fallback result is empty
\* exactly when the input has no trace-like physical line; otherwise it is
\* a contiguous slice of the physical lines that begins with the first
\* trace-like line, joined by single line feeds.
C16_FirstRunSlice ==
  With(SplitLines(input), LAMBDA lines :
    (Extracted /\ strategy = 4) =>
      /\ extracted = <<>> <=> TraceLikeLines(lines) = {}
      /\ TraceLikeLines(lines) # {} =>
           \E e \in RunStart(lines)..Len(lines) :
             extracted = Join(SubSeq(lines, RunStart(lines), e), <<NL>>))

\* the result is a slice that begins after the first line of the input, holds
\* a blank line and a tolerated line that is not trace-like, and whose
\* carriage return before the line feed is gone
C16_Witness ==
  With(SplitLines(input), LAMBDA lines :
    /\ Extracted /\ strategy = 4 /\ TraceLikeLines(lines) # {}
    /\ RunStart(lines) > 1
    /\ \E e \in (RunStart(lines) + 3)..Len(lines) :
         /\ extracted = Join(SubSeq(lines, RunStart(lines), e), <<NL>>)
         /\ \E i \in RunStart(lines)..e : lines[i] = <<>>
         /\ \E i \in RunStart(lines)..e : lines[i] # <<>> /\ ~isStackTraceLine(lines[i])
    /\ Len(extracted) < Len(input) - Len(lines[1]) - 1)


\* C17: the core keeps no state across calls: a call on an input returns a
\* result equal to that of every earlier call on the same input, whatever
\* calls came between; parseStackTrace on the same text gives equal results;
\* the static regex objects are as they were when the module was loaded.
C17_NoStateAcrossCalls ==
  /\ lastIndex = [i \in 1..Len(STACK_TRACE_PATTERNS) |-> 0]
  /\ \A k \in 1..Len(history) :
       /\ (pc \in {"extracted", "parsed", "rendered"} /\ Extracted
             /\ history[k].strategy # 0 /\ history[k].input = input)
            => (history[k].extracted = extracted /\ history[k].strategy = strategy)
       /\ (pc \in {"parsed", "rendered"}
             /\ (IF history[k].strategy # 0 THEN history[k].extracted ELSE history[k].input)
                  = ParsedText)
            => history[k].parsed = parsed
       /\ (pc = "rendered" /\ history[k].parsed = parsed) => history[k].html = html

\* a second request on the input of the first has been served, a trace that
\* the fallback extracts
C17_Witness ==
  /\ pc = "rendered" /\ Len(history) = 1
  /\ history[1].input = input
  /\ strategy = 4 /\ history[1].strategy = 4
  /\ extracted # <<>> /\ history[1].extracted = extracted
  /\ parsed.hasStackTrace /\ history[1].html = html


\* the match starts the forward scan is examined from
MaxScanStart == 3

\* C18: the forward scan of extractExtendedEscapedSequence ends on every
\* input and every start s, and examines no character at an index more than
\* 2000 positions past s.
C18_ScanWithinCap ==
  Extracted =>
    \A st \in 0..MaxScanStart :
      st < Len(input) =>
        /\ ForwardScan(input, st).last <= Len(input) - 1
        /\ ForwardScan(input, st).last <= st + ScanCap

\* C18 amended: the forward scan ends on every input and every start s, and
\* examines no character at an index more than 2001 positions past s.
C18_ScanWithinCapPlusOne ==
  Extracted =>
    \A st \in 0..MaxScanStart :
      st < Len(input) =>
        /\ ForwardScan(input, st).last <= Len(input) - 1
        /\ ForwardScan(input, st).last <= st + ScanCap + 1
        /\ Len(extractExtendedEscapedSequence(input, st)) <= ScanCap + 1 + st

\* an input longer than the cap, with two escapes and no white space or
\* quote after them, has been scanned: the scan stopped at the cap, short of
\* the end of the input
C18_Witness ==
  /\ Extracted /\ Len(input) > ScanCap + 10
  /\ ForwardScan(input, 0).escapeCount >= 2
  /\ ForwardScan(input, 0).last = ScanCap + 1
  /\ ForwardScan(input, 0).last < Len(input) - 1
  /\ ForwardScan(input, 0).end = 0


\* the characters that open or close a tag or an attribute value
TagChars == {"<", ">", QUOTE, "'"}
\* the tag characters of a text, in order
TagCharsOf(text) == SelectSeq(text, LAMBDA c : c \in TagChars)
\* a text with each special character replaced by a letter
Plain(text) == [i \in 1..Len(text) |-> IF text[i] \in TagChars \cup {"&"} THEN "x" ELSE text[i]]
\* a parsed line with every text field made plain
PlainLine(line) ==
  [f \in DOMAIN line |->
     IF f \in {"content", "className", "methodName", "fileName"} THEN Plain(line[f]) ELSE line[f]]
PlainParsed(p) == [p EXCEPT !.lines = [i \in 1..Len(p.lines) |-> PlainLine(p.lines[i])]]
\* the entities the renderer writes
Entities ==
  {<<"&","a","m","p",";">>, <<"&","l","t",";">>, <<"&","g","t",";">>,
   <<"&","q","u","o","t",";">>, <<"&","#","3","9",";">>, <<"&","n","b","s","p",";">>}
\* the number of places where w stands in text
Occurrences(text, w) ==
  Cardinality({i \in 1..(Len(text) - Len(w) + 1) : SubSeq(text, i, i + Len(w) - 1) = w})
\* the texts the renderer takes from a line, one after another
TakenText(line) ==
  IF line.type = "at" THEN line.className \o line.methodName \o line.fileName
  ELSE line.content
RECURSIVE AmpersandsTaken(_, _)
AmpersandsTaken(lines, i) ==
  IF i > Len(lines) THEN 0
  ELSE Occurrences(TakenText(lines[i]), <<"&">>) + AmpersandsTaken(lines, i + 1)

\* C19: every text taken from a parsed line is escaped before it goes into
\* the markup: the tag characters of the rendered output are those of the
\* same rendering with every special character of the line texts replaced
\* by a letter, every '&' of the output begins an entity, and as many
\* '&amp;' stand in the output as '&' in the texts taken.
C19_ContentEscaped ==
  (pc = "rendered" /\ parsed.hasStackTrace) =>
    /\ TagCharsOf(html) = TagCharsOf(formatAsHtml(PlainParsed(parsed)))
    /\ \A i \in 1..Len(html) :
         html[i] = "&" => \E e \in Entities : SubSeq(html, i, i + Len(e) - 1) = e
    /\ Occurrences(html, <<"&","a","m","p",";">>) = AmpersandsTaken(parsed.lines, 1)

\* a trace whose exception message holds all five special characters and
\* whose frame has special characters in its file name has been rendered
C19_Witness ==
  /\ pc = "rendered" /\ parsed.hasStackTrace
  /\ \E i \in 1..Len(parsed.lines) :
       parsed.lines[i].type = "exception"
         /\ TagChars \cup {"&"} \subseteq Range(parsed.lines[i].content)
  /\ \E i \in 1..Len(parsed.lines) :
       parsed.lines[i].type = "at" /\ {"<", ">", "&"} \subseteq Range(parsed.lines[i].fileName)
  /\ \A e \in Entities \ {<<"&","n","b","s","p",";">>} : Occurrences(html, e) > 0


\* the markup of the i-th line of a rendered trace
RenderedLine(i) == SplitLines(html)[i]
\* a span element whose text is the given one: the end of the opening tag,
\* the escaped text, the closing tag
SpanWith(text) == <<">">> \o escapeHtml(text) \o MkSpanClose
\* the location sub-span of a frame as stated: the file name, and ':' and
\* the line number when there is one
LocationText(line) ==
  IF "lineNumber" \in DOMAIN line
    THEN escapeHtml(line.fileName) \o <<":">> \o NumberToString(line.lineNumber)
  ELSE escapeHtml(line.fileName)
LocationSpan(line) ==
  <<"<","s","p","a","n"," ","c","l","a","s","s","=","\"","l","o","c","a","t","i","o","n","\"",">">>
    \o LocationText(line) \o MkSpanClose

\* C20: for every frame whose lineNumber is present, whatever its value,
\* the rendered location sub-span is fileName, ':' and the line number; when
\* lineNumber is absent it is the fileName alone; the class name, the method
\* name and the location each stand in a sub-span of their own.
C20_FrameSubSpans ==
  (pc = "rendered" /\ parsed.hasStackTrace) =>
    \A i \in 1..Len(parsed.lines) :
      parsed.lines[i].type = "at" =>
        /\ Includes(RenderedLine(i), LocationSpan(parsed.lines[i]))
        /\ Includes(RenderedLine(i), SpanWith(parsed.lines[i].className))
        /\ Includes(RenderedLine(i), SpanWith(parsed.lines[i].methodName))

\* a frame with line number 7 and a frame without a line number have been
\* rendered with the location sub-span as stated
C20_Witness ==
  /\ pc = "rendered" /\ parsed.hasStackTrace
  /\ \E i \in 1..Len(parsed.lines) :
       /\ parsed.lines[i].type = "at" /\ "lineNumber" \in DOMAIN parsed.lines[i]
       /\ parsed.lines[i].lineNumber = 7
       /\ Includes(RenderedLine(i), LocationSpan(parsed.lines[i]))
  /\ \E i \in 1..Len(parsed.lines) :
       /\ parsed.lines[i].type = "at" /\ "lineNumber" \notin DOMAIN parsed.lines[i]
       /\ Includes(RenderedLine(i), LocationSpan(parsed.lines[i]))


\* the number of white space characters a text begins with
LeadingCount(text) ==
  Max({k \in 0..Len(text) : \A i \in 1..k : text[i] \in WhiteSpace})
\* the opening tag of a block of the given type
BlockOpen(type) ==
  <<"<","d","i","v"," ","c","l","a","s","s","=","\"","s","t","a","c","k","t","r","a","c","e","-">>
    \o (CASE type = "exception" -> <<"e","x","c","e","p","t","i","o","n">>
           [] type = "at" -> <<"a","t">>
           [] type = "caused_by" -> <<"c","a","u","s","e","d","_","b","y">>
           [] type = "suppressed" -> <<"s","u","p","p","r","e","s","s","e","d">>
           [] type = "more" -> <<"m","o","r","e">>
           [] OTHER -> <<"u","n","k","n","o","w","n">>)
    \o <<"\"",">">>
\* the i-th block of the rendered trace: the i-th line of the markup, the
\* first without the opening tag of the container
Block(i) ==
  IF i = 1 THEN SubSeq(RenderedLine(1), Len(MkContainerOpen) + 1, Len(RenderedLine(1)))
  ELSE RenderedLine(i)
\* n non-breaking-space entities
Entities_nbsp(n) == [k \in 1..(6 * n) |-> <<"&","n","b","s","p",";">>[((k - 1) % 6) + 1]]

\* C21: when hasStackTrace is true the markup has one block per entry of
\* lines, in the order of lines; each block opens with the class
\* stacktrace-<type> of its entry, followed by exactly indent non-breaking
\* space entities, indent being the number of white space characters the
\* line begins with.
C21_OneBlockPerLine ==
  (pc = "rendered" /\ parsed.hasStackTrace) =>
    /\ StartsWith(html, MkContainerOpen)
    /\ Len(SplitLines(html)) = Len(parsed.lines)
    /\ \A i \in 1..Len(parsed.lines) :
         /\ parsed.lines[i].indent = LeadingCount(parsed.lines[i].content)
         /\ StartsWith(Block(i), BlockOpen(parsed.lines[i].type)
                                   \o Entities_nbsp(parsed.lines[i].indent))
         /\ ~StartsWith(Block(i), BlockOpen(parsed.lines[i].type)
                                    \o Entities_nbsp(parsed.lines[i].indent + 1))
         /\ Occurrences(Block(i), <<"<","d","i","v">>) = 1

\* a trace of two lines of different types has been rendered, the second
\* indented by four spaces
C21_Witness ==
  /\ pc = "rendered" /\ parsed.hasStackTrace
  /\ Len(parsed.lines) = 2
  /\ parsed.lines[1].type = "caused_by" /\ parsed.lines[1].indent = 0
  /\ parsed.lines[2].type = "at" /\ parsed.lines[2].indent = 4
  /\ StartsWith(Block(2), BlockOpen("at") \o Entities_nbsp(4))


\* C22: formatAsHtml returns the fixed placeholder exactly when hasStackTrace
\* is false, whatever lines holds, and a stacktrace container exactly when
\* hasStackTrace is true.
C22_PlaceholderIffNoTrace ==
  pc = "rendered" =>
    /\ (html = <<"<","p"," ","c","l","a","s","s","=","\"","n","o","-","s","t","a","c","k","t","r","a","c","e","\"",">","N","o"," ","s","t","a","c","k"," ","t","r","a","c","e"," ","f","o","u","n","d","<","/","p",">">>) <=> ~parsed.hasStackTrace
    /\ StartsWith(html, <<"<","d","i","v"," ","c","l","a","s","s","=","\"","s","t","a","c","k","t","r","a","c","e","-","c","o","n","t","a","i","n","e","r","\"",">">>) <=> parsed.hasStackTrace

\* both have been rendered: a result without a trace that has lines, and a
\* result with a trace that has none
C22_Witness ==
  /\ pc = "rendered"
  /\ \/ ~parsed.hasStackTrace /\ Len(parsed.lines) = 2
        /\ parsed.lines[1].type = "exception"
     \/ parsed.hasStackTrace /\ Len(parsed.lines) = 0


\* C30: for every result, of either hasStackTrace value and with any lines,
\* BrowserCompatibleStackTraceParser.formatAsHtml returns exactly the string
\* StackTraceParser.formatAsHtml returns.
C30_RenderersAgree ==
  pc = "rendered" =>
    /\ html = formatAsHtml(parsed)
    /\ html = Browser_formatAsHtml(parsed)

\* a trace with a frame whose file name holds markup and a suppressed line
\* with a quote has been rendered
C30_Witness ==
  /\ pc = "rendered" /\ parsed.hasStackTrace
  /\ Len(parsed.lines) = 2
  /\ parsed.lines[1].type = "at"
  /\ {"fileName", "lineNumber"} \subseteq DOMAIN parsed.lines[1]
  /\ parsed.lines[1].fileName # escapeHtml(parsed.lines[1].fileName)
  /\ parsed.lines[2].type = "suppressed"
  /\ Occurrences(html, <<"&","#","3","9",";">>) = 2


\* a line without the white space it begins with
Body(line) == SubSeq(line, LeadingCount(line) + 1, Len(line))
\* the part of a header before its first ':' and the part from it on
ChainOf(b) == SubSeq(b, 1, Min({i \in 1..Len(b) : b[i] = ":"} \cup {Len(b) + 1}) - 1)
TailOf(b) == SubSeq(b, Len(ChainOf(b)) + 1, Len(b))
\* one or more identifiers joined by '.'
IsChain(p) == IsIdentifier(p) \/ IsDottedPath(p)
LastSegment(p) == SubSeq(p, Max({0} \cup DotPositions(p)) + 1, Len(p))
EndsWith(s, w) == Len(s) >= Len(w) /\ SubSeq(s, Len(s) - Len(w) + 1, Len(s)) = w
\* nothing, or ': ' and a message
IsMessageTail(t) == t = <<>> \/ (Len(t) > 2 /\ t[1] = ":" /\ t[2] = " ")
WordException == <<"E","x","c","e","p","t","i","o","n">>
WordError == <<"E","r","r","o","r">>
\* a chain whose last segment holds one of the two words, with or without a message
IsHeaderContaining(line) ==
  With(Body(line), LAMBDA b :
    /\ IsChain(ChainOf(b))
    /\ \E w \in {WordException, WordError} : Occurrences(LastSegment(ChainOf(b)), w) > 0
    /\ IsMessageTail(TailOf(b)))
\* a chain that ends with one of the two words and is longer than the word
IsHeaderEnding(line) ==
  With(Body(line), LAMBDA b :
    /\ IsChain(ChainOf(b))
    /\ \E w \in {WordException, WordError} :
         EndsWith(ChainOf(b), w) /\ Len(ChainOf(b)) > Len(w)
    /\ IsMessageTail(TailOf(b)))
\* the parsed text is one line, classified as an exception and trace-like
ParsedAsException ==
  /\ Len(parsed.lines) = 1
  /\ parsed.lines[1].type = "exception"
  /\ parsed.lines[1].content = ParsedText
  /\ parsed.hasStackTrace
  /\ isStackTraceLine(ParsedText)

\* C23 as stated: a line of optional white space and a dotted identifier
\* chain whose last segment contains Exception or Error, optionally followed
\* by ': <message>', is classified as type exception and is trace-like.
C23_ContainingIsException ==
  (pc \in {"parsed", "rendered"} /\ IsHeaderContaining(ParsedText)) => ParsedAsException

\* C23 amended: a line of optional white space and a dotted identifier chain
\* that ends with Exception or Error and is longer than that word, optionally
\* followed by ': <message>', is classified as type exception and is
\* trace-like.
C23_EndingIsException ==
  (pc \in {"parsed", "rendered"} /\ IsHeaderEnding(ParsedText)) => ParsedAsException

\* an indented header of two segments with a message has been parsed
C23_Witness ==
  /\ pc = "parsed"
  /\ ParsedText = <<"\t","a",".","I","O","E","r","r","o","r",":"," ","m">>
  /\ IsHeaderEnding(ParsedText)
  /\ ParsedAsException


\* a line of the form at <name>(<location>) after optional white space, the
\* name one identifier without a '.'
IsNoDotFrameForm(line) ==
  With(Trim(line), LAMBDA b :
    /\ Len(b) >= 4 /\ SubSeq(b, 1, 3) = <<"a","t"," ">>
    /\ b[Len(b)] = ")"
    /\ \E i \in 1..Len(b) : b[i] = "("
    /\ IsIdentifier(PathOf(line))
    /\ LocationOf(line) # <<>>
    /\ \A i \in 1..Len(LocationOf(line)) : LocationOf(line)[i] # ")")

\* C24: a line at <name>(<location>) whose method path holds no '.' is
\* classified as a frame whose className is the empty string and whose
\* methodName is the whole name.
C24_NoDotFrame ==
  (pc \in {"parsed", "rendered"} /\ IsNoDotFrameForm(ParsedText)) =>
    /\ Len(parsed.lines) = 1
    /\ parsed.lines[1].type = "at"
    /\ parsed.lines[1].className = <<>>
    /\ parsed.lines[1].methodName = PathOf(ParsedText)

\* a frame line whose method path is one identifier has been parsed
C24_Witness ==
  /\ pc = "parsed"
  /\ input = <<"\t","a","t"," ","m","a","i","n","(","F",":","0",")">>
  /\ IsNoDotFrameForm(input)
  /\ Len(parsed.lines) = 1


\* the body is a JSON object whose text field is a string
HasStringText(body) ==
  body.parses /\ body.json.t = "object" /\ body.json.text.t = "string"

\* C25: a POST to /api/parse whose body is not parseable, or whose text
\* field is missing or no string, is answered with status 400 and success
\* false, and none of extractStackTrace, parseStackTrace and formatAsHtml is
\* invoked; a string text leads to exactly one extract, then one parse, then
\* one render, and to a success response that carries the three results.
C25_HandlerValidates ==
  pc = "responded" =>
    IF HasStringText(input)
      THEN /\ calls = <<"StackTraceParser.extractStackTrace", "StackTraceParser.parseStackTrace",
                        "BrowserCompatibleStackTraceParser.formatAsHtml">>
           /\ response.success /\ response.status = 200
           /\ response.extractedStackTrace = extractStackTrace(input.json.text.s)
           /\ response.parsedStackTrace = parseStackTrace(response.extractedStackTrace)
           /\ response.formattedHtml = Browser_formatAsHtml(response.parsedStackTrace)
    ELSE /\ calls = <<>>
         /\ response.status = 400 /\ ~response.success
         /\ DOMAIN response = {"status", "success", "error"}
         /\ extracted = <<>> /\ parsed = NoParse /\ html = <<>>

\* the handler has answered a body whose text field is a number
C25_Witness ==
  /\ pc = "responded"
  /\ input.parses /\ input.json.t = "object" /\ input.json.text.t = "number"
  /\ response = InvalidInputResponse
  /\ calls = <<>>


\* the lines of trace stand in text one after another
HoldsLines(text, trace) ==
  With(SplitLines(text), LAMBDA ls :
  With(SplitLines(trace), LAMBDA ts :
    \E k \in 0..(Len(ls) - Len(ts)) : SubSeq(ls, k + 1, k + Len(ts)) = ts))

\* C26: for an input without a double quote in which a trace, a header with
\* a message followed by frames, is written on one physical line with the
\* two-character sequences \\n and \\t, extractStackTrace returns the
\* unescaped trace of several lines, with the header and every frame.
C26_RawEscapedTraceExtracted ==
  (pc = "extracted") =>
    \A t \in RawTraces, e \in RawEmbeddings :
      (input = Embed(e, t) /\ \A i \in 1..Len(input) : input[i] # QUOTE)
        => HoldsLines(extracted, t)

\* extractStackTrace has returned on a header and two frames escaped on one
\* line, and the result holds the escapes as they were written
C26_Witness ==
  /\ pc = "extracted"
  /\ input = JsonEscape(Join(<<HeaderPrefix \o <<"m">>, FrameA, FrameB>>, <<NL>>))
  /\ Len(SplitLines(input)) = 1
  /\ extracted = input


\* C27: unescapeJsonString inverts JSON-style escaping: for every text over
\* line feed, carriage return, tab, double quote, backslash and ordinary
\* characters, unescaping the escaped form of the text returns the text.
C27_UnescapeInvertsEscape ==
  pc = "unescaped" => extracted = input

\* the escaped form of a backslash followed by the letter n has been
\* unescaped
C27_Witness ==
  /\ pc = "unescaped"
  /\ input = <<BS, "n">>
  /\ JsonEscape(input) = <<BS, BS, "n">>
  /\ extracted = <<BS, NL>>


\* C28: extractStackTrace(x) is non-empty exactly when
\* parseStackTrace(extractStackTrace(x)).hasStackTrace is true: a non-empty
\* extraction, of whichever strategy, has a line the classifier recognizes,
\* and the empty extraction parses to an invalid result.
C28_ExtractedIffParses ==
  (pc = "parsed" /\ calls = <<CallExtract, CallParse>>) =>
    /\ parsed.extractedText = extracted
    /\ (extracted # <<>>) <=> parsed.hasStackTrace
    /\ (extracted # <<>>) =>
         \E i \in 1..Len(parsed.lines) : parsed.lines[i].type # "unknown"
    /\ (extracted = <<>>) => parsed.lines = <<>>

\* the result of the raw-escaped strategy, which begins with a line the
\* classifier does not recognize, has been parsed
C28_Witness ==
  /\ pc = "parsed" /\ calls = <<CallExtract, CallParse>>
  /\ strategy = 3
  /\ parsed.lines[1].type = "unknown"
  /\ parsed.hasStackTrace


\* the last of the lines of a text
LastLine(text) == SplitLines(text)[Len(SplitLines(text))]

\* C29: whenever the literal line-run fallback returns a result that is not
\* empty, the last line of the result is a trace-like line: the result ends
\* neither with a blank line nor with a tolerated line that is no trace line.
C29_RunEndsTraceLike ==
  (pc = "extracted" /\ strategy = 4 /\ extracted # <<>>) =>
    isStackTraceLine(LastLine(extracted))

\* the fallback has returned on a trace line followed by a blank line and a
\* log line
C29_Witness ==
  /\ pc = "extracted" /\ strategy = 4
  /\ Len(SplitLines(input)) = 3
  /\ isStackTraceLine(SplitLines(input)[1])
  /\ SplitLines(input)[2] = <<>>
  /\ ~isStackTraceLine(SplitLines(input)[3]) /\ Trim(SplitLines(input)[3]) # <<>>
  /\ extracted = SplitLines(input)[1] \o <<NL>>
====
